---------------------------- MODULE Spec2Model ----------------------------
(***************************************************************************)
(* helsing: vampire number search.  Model of src/helsing.c (single-file    *)
(* build, CACHE true, ELEMENT_BITS 64): argument parsing, band driver,     *)
(* tile matrix, worker threads with the read/write mutexes, the search     *)
(* kernel with the digit-signature cache, the AVL tree and the result      *)
(* list.                                                                   *)
(*                                                                         *)
(* vamp_t (unsigned long long) values are kept exact: a value is a         *)
(* little-endian sequence of limbs in base LimbBase without leading zero   *)
(* limbs (0 is <<>>), and the arithmetic wraps modulo 2^64.  fang_t values *)
(* and array indices are plain naturals (all fangs of the modelled bands   *)
(* are below 2^31).                                                        *)
(***************************************************************************)
EXTENDS Integers, Sequences, FiniteSets, TLC

(* ------------------------------- options ------------------------------- *)
(* Compile-time options of a build. *)
VARIABLES VERBOSE_LEVEL, THREADS, MAX_TILE_SIZE

COUNT_RESULTS == VERBOSE_LEVEL = 0
DUMP_RESULTS == VERBOSE_LEVEL = 1
PROCESS_RESULTS == VERBOSE_LEVEL \in {2, 3}
STORE_RESULTS == VERBOSE_LEVEL = 3
PRINT_RESULTS == VERBOSE_LEVEL = 3

DIGMULT == 7
ELEMENT_BITS == 64

(* ------------------------------ vamp_t -------------------------------- *)
LimbBase == 10000

(* The null pointer: a record, so that it compares with the records that  *)
(* model structs.                                                          *)
NULL == [ptr |-> 0]

SetMax(S) == CHOOSE x \in S : \A y \in S : y <= x

(* The element of a one-element set: {F(v) : v \in {e}} evaluates e once    *)
(* before F uses it.                                                        *)
One(S) == CHOOSE v \in S : TRUE

RECURSIVE V(_)
V(n) ==
    IF n = 0 THEN << >>
    ELSE IF n < LimbBase THEN <<n>>
    ELSE <<n % LimbBase>> \o V(n \div LimbBase)

RECURSIVE VInt(_)
VInt(v) ==
    IF v = << >> THEN 0
    ELSE IF Len(v) = 1 THEN v[1]
    ELSE Head(v) + LimbBase * VInt(Tail(v))

RECURSIVE VNorm(_)
VNorm(s) ==
    IF s = << >> THEN << >>
    ELSE IF s[Len(s)] = 0 THEN VNorm(SubSeq(s, 1, Len(s) - 1))
    ELSE s

VLt(a, b) ==
    IF Len(a) # Len(b) THEN Len(a) < Len(b)
    ELSE LET diff == {i \in 1..Len(a) : a[i] # b[i]}
         IN  diff # {} /\ a[SetMax(diff)] < b[SetMax(diff)]

VLe(a, b) == ~VLt(b, a)

VTail(a) == IF a = << >> THEN << >> ELSE Tail(a)
VHead(a) == IF a = << >> THEN 0 ELSE Head(a)

RECURSIVE VAddC(_, _, _)
VAddC(a, b, c) ==
    IF a = << >> /\ b = << >>
    THEN (IF c = 0 THEN << >> ELSE <<c>>)
    ELSE LET x == VHead(a) + VHead(b) + c
         IN  <<x % LimbBase>> \o VAddC(VTail(a), VTail(b), x \div LimbBase)

RECURSIVE VSubB(_, _, _)
VSubB(a, b, c) ==  \* a - b - c for a >= b + c, not normalised
    IF a = << >> THEN << >>
    ELSE LET x == VHead(a) - VHead(b) - c
         IN  IF x < 0 THEN <<x + LimbBase>> \o VSubB(Tail(a), VTail(b), 1)
             ELSE <<x>> \o VSubB(Tail(a), VTail(b), 0)

VSubExact(a, b) == VNorm(VSubB(a, b, 0))

RECURSIVE VMulLimbC(_, _, _)
VMulLimbC(a, d, c) ==  \* a * d + c for a limb d
    IF a = << >> THEN V(c)
    ELSE LET x == Head(a) * d + c
         IN  <<x % LimbBase>> \o VMulLimbC(Tail(a), d, x \div LimbBase)

VMulLimb(a, d) == IF d = 0 THEN << >> ELSE VMulLimbC(a, d, 0)

RECURSIVE VMulExact(_, _)
VMulExact(a, b) ==
    IF b = << >> \/ a = << >> THEN << >>
    ELSE VAddC(VMulLimb(a, Head(b)),
               LET r == VMulExact(a, Tail(b))
               IN  IF r = << >> THEN << >> ELSE <<0>> \o r,
               0)

(* Division by a natural s with s * LimbBase < 2^31. *)
RECURSIVE VDivModS(_, _)
VDivModS(a, s) ==  \* <<quotient limbs (not normalised), remainder>>
    IF a = << >> THEN << << >>, 0 >>
    ELSE LET hi == VDivModS(Tail(a), s)
             x  == hi[2] * LimbBase + Head(a)
         IN  << <<x \div s>> \o hi[1], x % s >>

SmallDivisor == 200000

(* Long division (Knuth D): the divisor is scaled so that its top limb is   *)
(* at least LimbBase / 2; the quotient limb estimated from the top limbs    *)
(* is then at most 2 too large.                                             *)
VQuotEst(r, b) ==
    LET n   == Len(b)
        top == (IF Len(r) > n THEN r[n + 1] ELSE 0) * LimbBase
               + (IF Len(r) >= n THEN r[n] ELSE 0)
    IN  IF top \div b[n] > LimbBase - 1 THEN LimbBase - 1 ELSE top \div b[n]

RECURSIVE VQuotFix(_, _, _)
VQuotFix(r, b, q) ==  \* the largest limb q' <= q with b * q' <= r
    IF VLe(VMulLimb(b, q), r) THEN q ELSE VQuotFix(r, b, q - 1)

RECURSIVE VDivModL(_, _)
VDivModL(a, b) ==  \* <<quotient limbs (not normalised), remainder>>
    IF a = << >> THEN << << >>, << >> >>
    ELSE LET hi == VDivModL(Tail(a), b)
             r  == VNorm(<<Head(a)>> \o hi[2])
             q  == VQuotFix(r, b, VQuotEst(r, b))
         IN  << <<q>> \o hi[1], VSubExact(r, VMulLimb(b, q)) >>

VDivMod(a, b) ==  \* b # 0
    IF Len(a) <= 1 /\ Len(b) = 1
    THEN <<V(VHead(a) \div b[1]), V(VHead(a) % b[1])>>
    ELSE IF Len(b) <= 2 /\ VInt(b) < SmallDivisor
    THEN LET r == VDivModS(a, VInt(b)) IN <<VNorm(r[1]), V(r[2])>>
    ELSE LET d == LimbBase \div (b[Len(b)] + 1)
             r == VDivModL(VMulLimb(a, d), VMulLimb(b, d))
         IN  <<VNorm(r[1]), VNorm(VDivModS(r[2], d)[1])>>

vamp_max == <<1615, 955, 737, 6744, 1844>>

VWrap(v) ==  \* reduction modulo 2^64
    IF VLe(v, vamp_max) THEN v
    ELSE VDivMod(v, VAddC(vamp_max, <<1>>, 0))[2]

VAdd(a, b) == VWrap(VAddC(a, b, 0))
VSub(a, b) ==
    IF VLe(b, a) THEN VSubExact(a, b)
    ELSE VSubExact(VAddC(VAddC(vamp_max, <<1>>, 0), a, 0), b)
VMul(a, b) == VWrap(VMulExact(a, b))
VDiv(a, b) == VDivMod(a, b)[1]
VMod(a, b) == VDivMod(a, b)[2]


(* --------------------------- helper functions -------------------------- *)
fang_max == vamp_max  \* unsigned long, 64 bits on the modelled platform

RECURSIVE length(_)
length(x) == IF VLt(V(9), x) THEN 1 + length(VDiv(x, V(10))) ELSE 1

length_isodd(x) == length(x) % 2 = 1

RECURSIVE pow10v(_)
pow10v(exponent) ==
    IF exponent > 0 THEN VMul(pow10v(exponent - 1), V(10)) ELSE V(1)

willoverflow(x, digit) ==
    \/ VLt(VDiv(vamp_max, V(10)), x)
    \/ x = VDiv(vamp_max, V(10)) /\ VLt(VMod(vamp_max, V(10)), V(digit))

DigitChars == <<"0", "1", "2", "3", "4", "5", "6", "7", "8", "9">>

isdigit(c) == \E d \in 1..10 : DigitChars[d] = c

DigitOf(c) == (CHOOSE d \in 1..10 : DigitChars[d] = c) - 1

(* atov: <<return value, *number>>; the string ends at its length (NUL). *)
RECURSIVE atov_loop(_, _, _)
atov_loop(str, i, ret) ==
    IF i <= Len(str) /\ isdigit(str[i])
    THEN IF willoverflow(ret, DigitOf(str[i]))
         THEN <<1, NULL>>
         ELSE atov_loop(str, i + 1, VAdd(VMul(V(10), ret), V(DigitOf(str[i]))))
    ELSE <<0, ret>>

atov(str) == atov_loop(str, 1, V(0))

(* A rule that admits every pair. *)
notrailingzero_any(x) == TRUE

(* The test turned round. *)
notrailingzero_inverted(x) == (x % 10) = 0

notrailingzero(x) == (x % 10) # 0

get_min(min, max) ==
    IF length_isodd(min)
    THEN IF length(min) < length(max) THEN pow10v(length(min)) ELSE max
    ELSE min

get_max(min, max) ==
    IF length_isodd(max)
    THEN IF length(max) > length(min)
         THEN VSub(pow10v(length(max) - 1), V(1))
         ELSE min
    ELSE max

get_lmax(lmin, max) ==
    IF length(lmin) < length(vamp_max)
       /\ VLt(VSub(pow10v(length(lmin)), V(1)), max)
    THEN VSub(pow10v(length(lmin)), V(1))
    ELSE max

sqrtv_next(x, root) == VDiv(VAdd(root, VDiv(x, root)), V(2))

(* At most n passes of the while loop, split in halves to keep the         *)
(* evaluation shallow.                                                      *)
RECURSIVE sqrtv_while(_, _, _)
sqrtv_while(x, root, n) ==
    IF n = 1
    THEN IF VLt(sqrtv_next(x, root), root) THEN sqrtv_next(x, root) ELSE root
    ELSE One({IF VLt(sqrtv_next(x, h), h)
              THEN sqrtv_while(x, h, n - n \div 2)
              ELSE h :
              h \in {sqrtv_while(x, root, n \div 2)}})

RECURSIVE sqrtv_loop(_, _)
sqrtv_loop(x, root) ==
    One({IF VLt(sqrtv_next(x, h), h) THEN sqrtv_loop(x, h) ELSE h :
            h \in {sqrtv_while(x, root, ELEMENT_BITS)}})

sqrtv_floor(x) ==
    IF VLt(V(0), VDiv(x, V(2))) THEN sqrtv_loop(x, VDiv(x, V(2))) ELSE x

(* x / root with root = 0 is undefined behaviour: DivByZero, which is not  *)
(* a value of vamp_t, marks it.                                            *)
DivByZero == <<-1>>

sqrtv_roof(x) ==
    LET root == sqrtv_floor(x)
    IN  IF root = fang_max THEN root
        ELSE IF root = V(0) THEN DivByZero
        ELSE VDiv(x, root)

(* The congruence taken modulo 3. *)
con9_mod3(x, y) == VMod(VAdd(x, y), V(3)) # VMod(VMul(x, y), V(3))

con9(x, y) == VMod(VAdd(x, y), V(9)) # VMod(VMul(x, y), V(9))

(* A division that drops the remainder. *)
div_roof_floor(x, y) == VDiv(x, y)

div_roof(x, y) ==
    VAdd(VDiv(x, y), IF VMod(x, y) # V(0) THEN V(1) ELSE V(0))

(* AUTO_TILE_SIZE true. *)
get_tilesize(lmin, lmax) ==
    LET tile_size == VDiv(VSub(lmax, lmin), V(4 * THREADS + 2))
    IN  IF VLt(MAX_TILE_SIZE, tile_size) THEN MAX_TILE_SIZE ELSE tile_size

(* ----------------------------- linked list ----------------------------- *)
LINK_SIZE == 100

(* A list is the sequence of its links, head first; a link is the filled    *)
(* part value[0 .. current-1] of its array.  NULL is the empty sequence.    *)
llist_init(value, next) ==
    IF next # << >> /\ Len(Head(next)) < LINK_SIZE
    THEN <<Append(Head(next), value)>> \o Tail(next)
    ELSE <<<<value>>>> \o next

Reverse(s) == [j \in 1..Len(s) |-> s[Len(s) + 1 - j]]

(* A print that walks each link's array from index 0 up. *)
RECURSIVE llist_values_forward(_)
llist_values_forward(list) ==
    IF list = << >> THEN << >>
    ELSE Head(list) \o llist_values_forward(Tail(list))

RECURSIVE llist_values(_)
llist_values(list) ==  \* the values in the order llist_print visits them
    IF list = << >> THEN << >>
    ELSE Reverse(Head(list)) \o llist_values(Tail(list))

(* llist_print: the lines "<++count> <value>" written to stdout. *)
llist_print(list, count) ==
    [j \in 1..Len(llist_values(list)) |->
        <<count + j, llist_values(list)[j]>>]

llhandle_init == [head |-> << >>, size |-> 0]

llhandle_add(handle, value) ==
    IF handle = NULL THEN handle
    ELSE [head |-> IF STORE_RESULTS THEN llist_init(value, handle.head)
                   ELSE handle.head,
          size |-> handle.size + 1]

(* ----------------------------- binary tree ----------------------------- *)
MIN_FANG_PAIRS == 1

btree_init(value) ==
    [left |-> NULL, right |-> NULL, value |-> value, height |-> 0,
     fang_pairs |-> 1]

is_balanced(tree) ==
    IF tree = NULL THEN 0
    ELSE (IF tree.left # NULL THEN tree.left.height ELSE 0)
         - (IF tree.right # NULL THEN tree.right.height ELSE 0)

btree_reset_height(tree) ==
    LET h1 == IF tree.left # NULL /\ tree.left.height >= 0
              THEN tree.left.height + 1 ELSE 0
        h2 == IF tree.right # NULL /\ tree.right.height >= h1
              THEN tree.right.height + 1 ELSE h1
    IN  [tree EXCEPT !.height = h2]

btree_rotate_l(tree) ==
    IF tree.right # NULL
    THEN LET right == tree.right
             t1    == btree_reset_height([tree EXCEPT !.right = right.left])
         IN  btree_reset_height([right EXCEPT !.left = t1])
    ELSE tree

btree_rotate_r(tree) ==
    IF tree.left # NULL
    THEN LET left == tree.left
             t1   == btree_reset_height([tree EXCEPT !.left = left.right])
         IN  btree_reset_height([left EXCEPT !.right = t1])
    ELSE tree

btree_balance(tree) ==
    IF is_balanced(tree) > 1
    THEN IF is_balanced(tree.left) < 0
         THEN btree_rotate_r(btree_reset_height(
                  [tree EXCEPT !.left = btree_rotate_l(tree.left)]))
         ELSE btree_rotate_r(tree)
    ELSE IF is_balanced(tree) < -1
    THEN IF is_balanced(tree.right) > 0
         THEN btree_rotate_l(btree_reset_height(
                  [tree EXCEPT !.right = btree_rotate_r(tree.right)]))
         ELSE btree_rotate_l(tree)
    ELSE tree

(* btree_add: [tree, count] after adding node; fang_pairs is a uint8_t. *)
RECURSIVE btree_add(_, _, _)
btree_add(tree, node, count) ==
    IF tree = NULL THEN [tree |-> btree_init(node), count |-> count + 1]
    ELSE IF node = tree.value
    THEN [tree  |-> [tree EXCEPT !.fang_pairs = (@ + 1) % 256],
          count |-> count]
    ELSE IF VLt(node, tree.value)
    THEN LET r == btree_add(tree.left, node, count)
         IN  [tree  |-> btree_balance(btree_reset_height(
                            [tree EXCEPT !.left = r.tree])),
              count |-> r.count]
    ELSE LET r == btree_add(tree.right, node, count)
         IN  [tree  |-> btree_balance(btree_reset_height(
                            [tree EXCEPT !.right = r.tree])),
              count |-> r.count]

(* A drain that keeps the node with the value number itself. *)
btree_drained_above(value, number) == VLt(number, value)

(* line 595: the node is moved to the list *)
btree_drained(value, number) == VLe(number, value)

(* btree_cleanup: [tree, lhandle, size] after moving the nodes with         *)
(* value >= number to lhandle.                                              *)
RECURSIVE btree_cleanup(_, _, _, _)
btree_cleanup(tree, number, lhandle, btree_size) ==
    IF tree = NULL
    THEN [tree |-> NULL, lhandle |-> lhandle, size |-> btree_size]
    ELSE LET r == btree_cleanup(tree.right, number, lhandle, btree_size)
             t == [tree EXCEPT !.right = r.tree]
             l == IF btree_drained(t.value, number)
                  THEN btree_cleanup(
                           t.left, number,
                           IF t.fang_pairs >= MIN_FANG_PAIRS
                           THEN llhandle_add(r.lhandle, t.value)
                           ELSE r.lhandle,
                           r.size - 1)
                  ELSE [tree |-> t, lhandle |-> r.lhandle, size |-> r.size]
         IN  IF l.tree = NULL THEN l
             ELSE [l EXCEPT !.tree = btree_balance(btree_reset_height(l.tree))]

bthandle_init == [tree |-> NULL, size |-> 0]

(* -------------------------------- tile --------------------------------- *)
(* result and complete exist in builds with PROCESS_RESULTS only. *)
tile_init(min, max) ==
    IF PROCESS_RESULTS
    THEN [lmin |-> min, lmax |-> max, result |-> NULL, complete |-> FALSE]
    ELSE [lmin |-> min, lmax |-> max]

(* ------------------------------- matrix -------------------------------- *)
(* A field that was never assigned. *)
Indeterminate == [ptr |-> 1]

(* arr is the sequence of the tiles (arr[x] of the code is arr[x + 1]);     *)
(* the null array is << >>.  cleanup exists with PROCESS_RESULTS only.      *)
(* freed is the record of the calls of tile_free with a tile of the array   *)
(* set last: the index and the lmin of the tile, and whether main or a      *)
(* worker made the call.                                                    *)
matrix_init ==
    [arr |-> << >>, size |-> 0, unfinished |-> 0, fmax |-> V(0),
     cleanup |-> IF PROCESS_RESULTS THEN 0 ELSE Indeterminate,
     freed |-> << >>]

(* tile_free(ptr->arr[x]): free(NULL) does nothing. *)
tile_free(ptr, x, who) ==
    IF ptr.arr[x + 1] = NULL THEN ptr.freed
    ELSE Append(ptr.freed,
                [tile |-> x, lmin |-> ptr.arr[x + 1].lmin,
                 by |-> IF who = 0 THEN "main" ELSE "worker"])

(* The for loop of matrix_set (lines 796-806): the tiles from i on. *)
RECURSIVE matrix_tiles(_, _, _, _)
matrix_tiles(i, lmax, tile_size, iterator) ==
    IF VLt(lmax, i) THEN << >>
    ELSE LET it == IF VLt(VSub(lmax, i), tile_size)
                   THEN VSub(lmax, i) ELSE iterator
         IN  <<tile_init(i, VAdd(i, it))>>
             \o (IF i = lmax \/ VAdd(i, it) = vamp_max
                 THEN << >>
                 ELSE matrix_tiles(VAdd(i, VAdd(it, V(1))), lmax,
                                   tile_size, it))

(* matrix_set, lines 770-774: ptr->fmax *)
matrix_fmax(lmin) ==
    IF length(lmin) \div 2 = length(fang_max) THEN fang_max
    ELSE pow10v(length(lmin) \div 2)

(* matrix_set, lines 780-785: lmax is cut at fmax * fmax *)
matrix_lmax(lmin, lmax, fmax) ==
    IF VLt(fmax, fang_max) /\ VLt(VMul(fmax, fmax), lmax)
       /\ VLe(lmin, VMul(fmax, fmax))
    THEN VMul(fmax, fmax) ELSE lmax

(* matrix_set, line 789: ptr->size *)
matrix_size(lmin, lmax, tile_size) ==
    VInt(div_roof(VAdd(VSub(lmax, lmin), V(1)),
                  VAdd(tile_size,
                       IF VLt(tile_size, vamp_max) THEN V(1) ELSE V(0))))

(* matrix_set, lines 768-807 with fmax, the cut lmax and the tiles of the  *)
(* for loop; line 807 writes the lmax of arr[size - 1].                    *)
matrix_fill(ptr, lmax, fmax, size, tiles) ==
    [arr        |-> [x \in 1..Len(tiles) |->
                       IF x = size THEN [tiles[x] EXCEPT !.lmax = lmax]
                       ELSE tiles[x]],
     size       |-> size,
     unfinished |-> 0,
     fmax       |-> fmax,
     cleanup    |-> IF PROCESS_RESULTS THEN 0 ELSE ptr.cleanup,
     freed      |-> << >>]

matrix_cut(ptr, lmin, lmax, fmax, tile_size) ==
    matrix_fill(ptr, lmax, fmax, matrix_size(lmin, lmax, tile_size),
                matrix_tiles(lmin, lmax, tile_size, tile_size))

matrix_bounded(ptr, lmin, lmax, fmax) ==
    matrix_cut(ptr, lmin, lmax, fmax, get_tilesize(lmin, lmax))

(* matrix_set: the matrix of the band [lmin, lmax] *)
matrix_set(ptr, lmin, lmax) ==
    matrix_bounded(ptr, lmin, matrix_lmax(lmin, lmax, matrix_fmax(lmin)),
                   matrix_fmax(lmin))

(* The tiles are freed from i on. *)
RECURSIVE matrix_reset_from(_, _)
matrix_reset_from(ptr, i) ==
    IF i >= ptr.size THEN ptr.freed
    ELSE matrix_reset_from([ptr EXCEPT !.freed = tile_free(ptr, i, 0)],
                           i + 1)

(* A reset that frees the tiles that the array held when it was set. *)
matrix_reset_stale(ptr) ==
    [ptr EXCEPT !.arr = << >>,
                !.freed = @ \o [x \in 1..ptr.size |->
                                  [tile |-> x - 1, lmin |-> V(0),
                                   by |-> "main"]]]

matrix_reset(ptr) ==
    [ptr EXCEPT !.arr = << >>, !.freed = matrix_reset_from(ptr, 0)]

(* matrix_print: the lines written and the counter; the loop visits the    *)
(* tiles cleanup .. size - 1 that are not NULL.                             *)
RECURSIVE matrix_print_from(_, _, _)
matrix_print_from(ptr, x, count) ==
    IF x >= ptr.size THEN [lines |-> << >>, count |-> count]
    ELSE IF ptr.arr[x + 1] = NULL THEN matrix_print_from(ptr, x + 1, count)
    ELSE LET rest == matrix_print_from(
                         ptr, x + 1, count + ptr.arr[x + 1].result.size)
         IN  [lines |-> llist_print(ptr.arr[x + 1].result.head, count)
                        \o rest.lines,
              count |-> rest.count]

matrix_print(ptr, count) ==
    IF PROCESS_RESULTS /\ PRINT_RESULTS
    THEN matrix_print_from(ptr, ptr.cleanup, count)
    ELSE [lines |-> << >>, count |-> count]

(* -------------------------------- cache -------------------------------- *)
RECURSIVE Pow2(_)
Pow2(n) == IF n = 0 THEN 1 ELSE 2 * Pow2(n - 1)

(* digits_t (uint64_t): the 64 bits as little-endian fields of DIGMULT     *)
(* bits; the last field holds the remaining high bits.                     *)
DigFields == (ELEMENT_BITS + DIGMULT - 1) \div DIGMULT

DigBase == Pow2(DIGMULT)
DigTopBase == Pow2(ELEMENT_BITS - DIGMULT * (DigFields - 1))

(* Fields of two bits. *)
DigFieldBase_narrow(i) == IF i < DigFields THEN 4 ELSE 2

DigFieldBase(i) == IF i < DigFields THEN DigBase ELSE DigTopBase

DigZero == [i \in 1..DigFields |-> 0]

(* (digits_t)1 << ((digit - 1) * DIGMULT) *)
DigShift(digit) == [i \in 1..DigFields |-> IF i = digit THEN 1 ELSE 0]

RECURSIVE DigAddC(_, _, _, _)
DigAddC(x, y, i, c) ==
    IF i > DigFields THEN << >>
    ELSE LET t == x[i] + y[i] + c
         IN  <<t % DigFieldBase(i)>>
             \o DigAddC(x, y, i + 1, t \div DigFieldBase(i))

DigAdd(x, y) ==  \* uint64_t addition
    IF \A i \in 1..DigFields : x[i] + y[i] < DigFieldBase(i)
    THEN [i \in 1..DigFields |-> x[i] + y[i]]
    ELSE DigAddC(x, y, 1, 0)

RECURSIVE set_dig(_)
set_dig(number) ==
    IF number > 0
    THEN IF number % 10 >= 1
         THEN DigAdd(set_dig(number \div 10), DigShift(number % 10))
         ELSE set_dig(number \div 10)
    ELSE DigZero

(* A table of 10^length_a entries. *)
cache_init_short(max) ==
    LET length_a == length(max) \div 3
        size     == VInt(pow10v(length_a))
    IN  [size    |-> size,
         power_a |-> IF length_a < 3 THEN size ELSE VInt(pow10v(length_a))]

(* cache_init: the table dig[0 .. size-1] holds set_dig(d) at index d. *)
cache_init(max) ==
    LET length_a == length(max) \div 3
        length_b == length(max) - 2 * length_a
        size     == VInt(pow10v(length_b))
    IN  [size    |-> size,
         power_a |-> IF length_a < 3 THEN size ELSE VInt(pow10v(length_a))]

(* dig[d]: a read past the end of the table is undefined behaviour. *)
OutOfBounds == <<"out of bounds">>

dig(cache, d) == IF d < cache.size THEN set_dig(d) ELSE OutOfBounds

DigSum3(a, b, c) ==
    IF OutOfBounds \in {a, b, c} THEN OutOfBounds
    ELSE DigAdd(DigAdd(a, b), c)

(* ------------------------------- vampire ------------------------------- *)
(* struct vargs; dumped is what the kernel itself writes to stdout          *)
(* (DUMP_RESULTS), reported the triples that passed the test, fault the     *)
(* undefined behaviour met.                                                 *)
vargs_init(digptr) ==
    [local_count |-> 0, digptr |-> digptr,
     thandle |-> IF PROCESS_RESULTS THEN bthandle_init ELSE NULL,
     lhandle |-> IF PROCESS_RESULTS THEN llhandle_init ELSE NULL,
     dumped |-> << >>, reported |-> << >>, fault |-> FALSE]

vargs_btree_cleanup(args, number) ==
    IF PROCESS_RESULTS
    THEN LET r == btree_cleanup(args.thandle.tree, number, args.lhandle,
                                args.thandle.size)
         IN  [args EXCEPT !.thandle = [tree |-> r.tree, size |-> r.size],
                          !.lhandle = r.lhandle]
    ELSE args

bthandle_add(handle, number) ==
    LET r == btree_add(handle.tree, number, handle.size)
    IN  [tree |-> r.tree, size |-> r.count]

(* A limb that is never reduced. *)
limb_carry_never(x, power_a) == FALSE

(* lines 1138, 1143, 1148: if (e0 >= power_a), and so for de0 and de1 *)
limb_carry(x, power_a) == x >= power_a

(* The state of one pass of the multiplier loop: the locals of vampire().  *)
(* One step of the inner for loop (lines 1123-1152).                        *)
vampire_inner(l) ==
    LET cache == l.args.digptr
        lhs   == DigSum3(l.digd, dig(cache, l.e0), dig(cache, l.e1))
        rhs   == DigSum3(dig(cache, l.de0), dig(cache, l.de1),
                         dig(cache, l.de2))
        oob   == OutOfBounds \in {lhs, rhs}
        hit   == /\ ~oob
                 /\ lhs = rhs
                 /\ (l.mult_zero \/ notrailingzero(l.multiplicand))
        a1    == IF hit
                 THEN [l.args EXCEPT
                         !.local_count =
                             IF COUNT_RESULTS \/ DUMP_RESULTS THEN @ + 1 ELSE @,
                         !.dumped =
                             IF DUMP_RESULTS
                             THEN Append(@, <<l.product, l.multiplier,
                                              l.multiplicand>>)
                             ELSE @,
                         !.thandle =
                             IF PROCESS_RESULTS
                             THEN bthandle_add(@, l.product) ELSE @,
                         !.reported = Append(@, <<l.product, l.multiplier,
                                                  l.multiplicand>>)]
                 ELSE l.args
        e0    == l.e0 + 9
        de0   == l.de0 + l.step0
        de1   == l.de1 + (IF limb_carry(de0, l.power_a) THEN 1 ELSE 0)
                       + l.step1
    IN  [l EXCEPT
           !.args = [a1 EXCEPT !.fault = @ \/ oob],
           !.e0 = IF limb_carry(e0, l.power_a) THEN e0 - l.power_a ELSE e0,
           !.e1 = IF limb_carry(e0, l.power_a) THEN @ + 1 ELSE @,
           !.de0 = IF limb_carry(de0, l.power_a) THEN de0 - l.power_a
                   ELSE de0,
           !.de1 = IF limb_carry(de1, l.power_a) THEN de1 - l.power_a
                   ELSE de1,
           !.de2 = IF limb_carry(de1, l.power_a) THEN @ + 1 ELSE @,
           !.product = VAdd(@, l.product_iterator),
           !.multiplicand = @ + 9]

(* n steps of the inner loop, split in halves to keep the evaluation       *)
(* shallow.                                                                 *)
RECURSIVE vampire_inner_loop(_, _)
vampire_inner_loop(l, n) ==
    IF n = 0 THEN l
    ELSE IF n = 1 THEN vampire_inner(l)
    ELSE One({vampire_inner_loop(h, n - n \div 2) :
                 h \in {vampire_inner_loop(l, n \div 2)}})

(* while (multiplicand <= multiplicand_max && con9(...)) multiplicand++ *)
RECURSIVE vampire_con9(_, _, _)
vampire_con9(multiplier, multiplicand, multiplicand_max) ==
    IF multiplicand <= multiplicand_max
       /\ con9(V(multiplier), V(multiplicand))
    THEN vampire_con9(multiplier, multiplicand + 1, multiplicand_max)
    ELSE multiplicand

(* The locals at the head of the inner loop (lines 1080-1121). *)
vampire_locals(args, multiplier, min_sqrt, multiplicand, multiplicand_max) ==
    LET power_a == args.digptr.power_a
        product_iterator == VMul(V(multiplier), V(9))
        product == VMul(V(multiplier), V(multiplicand))
    IN  [args |-> args, multiplier |-> multiplier,
         multiplicand |-> multiplicand,
         multiplicand_max |-> multiplicand_max,
         mult_zero |-> notrailingzero(multiplier),
         power_a |-> power_a,
         product_iterator |-> product_iterator,
         product |-> product,
         step0 |-> VInt(VMod(product_iterator, V(power_a))),
         step1 |-> VInt(VDiv(product_iterator, V(power_a))),
         e0 |-> multiplicand % power_a,
         e1 |-> multiplicand \div power_a,
         digd |-> IF min_sqrt >= args.digptr.size THEN set_dig(multiplier)
                  ELSE dig(args.digptr, multiplier),
         de0 |-> VInt(VMod(product, V(power_a))),
         de1 |-> VInt(VMod(VDiv(product, V(power_a)), V(power_a))),
         de2 |-> VInt(VDiv(VDiv(product, V(power_a)), V(power_a)))]

InnerCount(l) ==  \* passes of the inner for loop from l on
    IF l.multiplicand <= l.multiplicand_max
    THEN (l.multiplicand_max - l.multiplicand) \div 9 + 1
    ELSE 0

(* A kernel that lets the multiplicand run up to the multiplier whatever   *)
(* the tile's upper bound is.                                               *)
multiplicand_max_unbounded(max, multiplier, max_sqrt) == multiplier

(* The quotient for every multiplier. *)
multiplicand_max_uncapped(max, multiplier, max_sqrt) ==
    VInt(VDiv(max, V(multiplier)))

(* lines 1083-1087: the largest multiplicand tried with a multiplier *)
multiplicand_max(max, multiplier, max_sqrt) ==
    IF multiplier >= max_sqrt THEN VInt(VDiv(max, V(multiplier)))
    ELSE multiplier

(* A drain of the whole tree after a multiplier. *)
vampire_drain_all(l1, multiplier, max_sqrt) ==
    IF multiplier < max_sqrt /\ l1.mult_zero
    THEN vargs_btree_cleanup(l1.args, V(0))
    ELSE l1.args

(* lines 1153-1154: the drain after the inner loop of a multiplier *)
vampire_drain(l1, multiplier, max_sqrt) ==
    IF multiplier < max_sqrt /\ l1.mult_zero
    THEN vargs_btree_cleanup(l1.args, l1.product)
    ELSE l1.args

(* The body of the multiplier loop for one multiplier (lines 1077-1155). *)
vampire_body(min, max, args, multiplier, min_sqrt, max_sqrt) ==
    IF multiplier % 3 = 1 THEN args
    ELSE LET multiplicand ==
                 vampire_con9(multiplier,
                              VInt(div_roof(min, V(multiplier))),
                              multiplicand_max(max, multiplier, max_sqrt))
         IN  IF multiplicand <= multiplicand_max(max, multiplier, max_sqrt)
             THEN One({vampire_drain(l1, multiplier, max_sqrt) :
                       l1 \in {vampire_inner_loop(l0, InnerCount(l0)) :
                               l0 \in {vampire_locals(
                                           args, multiplier, min_sqrt,
                                           multiplicand,
                                           multiplicand_max(
                                               max, multiplier,
                                               max_sqrt))}}})
             ELSE args

(* The multiplier loop from multiplier down, n passes. *)
RECURSIVE vampire_loop(_, _, _, _, _, _, _)
vampire_loop(min, max, args, multiplier, n, min_sqrt, max_sqrt) ==
    IF n = 0 THEN args
    ELSE IF n = 1
    THEN vampire_body(min, max, args, multiplier, min_sqrt, max_sqrt)
    ELSE One({vampire_loop(min, max, h, multiplier - n \div 2,
                           n - n \div 2, min_sqrt, max_sqrt) :
                 h \in {vampire_loop(min, max, args, multiplier, n \div 2,
                                     min_sqrt, max_sqrt)}})

(* The multiplier loop is run in steps of at most ScanChunk passes. *)
ScanChunk == 64

(* The locals of a call of vampire() that is under way. *)
vampire_idle ==
    [running |-> FALSE, multiplier |-> 0, min_sqrt |-> 0, max_sqrt |-> 0]

(* At most ScanChunk passes of the multiplier loop from l.multiplier on;   *)
(* running is FALSE in the result when the function has returned.          *)
vampire_from(min, max, args, l) ==
    LET left == IF l.multiplier >= l.min_sqrt
                THEN l.multiplier - l.min_sqrt + 1 ELSE 0
        n    == IF left > ScanChunk THEN ScanChunk ELSE left
    IN  One({IF n = left
             THEN [args |-> vargs_btree_cleanup(a, V(0)),
                   locals |-> vampire_idle]
             ELSE [args |-> a,
                   locals |-> [l EXCEPT !.multiplier = @ - n]] :
             a \in {vampire_loop(min, max, args, l.multiplier, n,
                                 l.min_sqrt, l.max_sqrt)}})

(* The locals of vampire() on entry (lines 1070-1076). *)
vampire_enter(max, fmax, min_sqrt) ==
    [running |-> TRUE, multiplier |-> fmax, min_sqrt |-> min_sqrt,
     max_sqrt |-> VInt(sqrtv_floor(max))]

(* ------------------------------- program ------------------------------- *)
VARIABLES
    argv,       \* argv[1 .. argc - 1], each a sequence of characters
    main,       \* main(): pc, its locals min, max, lmin, lmax, and ret
    mat,        \* thhandle->mat
    digptr,     \* thhandle->digptr
    counter,    \* thhandle->counter
    read,       \* thhandle->read: 0 or the worker that holds it
    write,      \* thhandle->write: 0 or the worker that holds it
    pc,         \* thread_worker(): position of each worker
    current,    \* thread_worker(): index in mat->arr of *current
    active,     \* thread_worker(): active
    vamp_args,  \* thread_worker(): *vamp_args
    locals,     \* vampire(): the locals of the call under way
    out,        \* stdout
    err,        \* stderr
    scans,      \* history: the finished calls of vampire()
    emitted,    \* history: the tiles of the band added to counter, in order
    printed,    \* history: the products printed in the band, with tiles
    touched,    \* history: guarded fields the last step read or wrote
    before,     \* history: what an earlier run of the command line found
    sig         \* the operands and results of a function checked on its own

vars ==
    <<VERBOSE_LEVEL, THREADS, MAX_TILE_SIZE, argv, main, mat, digptr,
      counter, read, write, pc, current, active, vamp_args, locals, out,
      err, scans, emitted, printed, touched, before, sig>>

Workers == 1..THREADS

Touch(who, fields) == [who |-> who, fields |-> fields]

(* The record kept of the lines printed for a tile: a line of a dump      *)
(* build is <<product, multiplier, multiplicand>>, a line of a print build *)
(* is <<count, product>>.  matrix_print visits the tiles left over at the  *)
(* end of the band, which are recorded with the index size.                *)
Printed(tile, lines) ==
    [j \in 1..Len(lines) |->
        [tile |-> tile,
         product |-> IF DUMP_RESULTS THEN lines[j][1] ELSE lines[j][2],
         line |-> lines[j]]]

(* The builds and command lines explored. *)
MaxThreads == 2

MAX_TILE_SIZE_default == <<9999, 9999, 999>>  \* 99999999999ULL

RECURSIVE Decimal(_)
Decimal(n) ==  \* the characters of the decimal numeral of n
    IF n < 10 THEN <<DigitChars[n + 1]>>
    ELSE Decimal(n \div 10) \o <<DigitChars[(n % 10) + 1]>>

Config(a, t, v, m) ==
    [argv |-> a, THREADS |-> t, VERBOSE_LEVEL |-> v, MAX_TILE_SIZE |-> m]

(* Command lines that end early or meet a corner of the code. *)
EdgeConfigs ==
    {Config(a, 1, 2, MAX_TILE_SIZE_default) :
        a \in {<<Decimal(5)>>,
               <<Decimal(0), Decimal(0)>>,
               <<Decimal(5), Decimal(2)>>,
               <<Decimal(5), Decimal(2), Decimal(1)>>,
               <<Decimal(18446) \o Decimal(74407) \o Decimal(37095)
                   \o Decimal(51616), Decimal(5)>>,
               <<Decimal(1259) \o <<"x">>, Decimal(1261)>>,
               << << >>, Decimal(5)>>,
               <<<<"-">> \o Decimal(1), Decimal(5)>>}}

Configs ==
    {Config(<<Decimal(1260), Decimal(1261)>>, t, v, MAX_TILE_SIZE_default) :
        t \in 1..MaxThreads, v \in 0..3}
    \cup {Config(<<Decimal(1259), Decimal(1261)>>, 2, v,
                 MAX_TILE_SIZE_default) : v \in 0..3}
    \cup {Config(<<Decimal(1395), Decimal(1435)>>, t, 3,
                 MAX_TILE_SIZE_default) : t \in 1..2}
    \cup {Config(<<Decimal(1255), Decimal(1265)>>, 1, v, m) :
             v \in 0..3, m \in {V(0), V(3), MAX_TILE_SIZE_default}}
    \cup {Config(<<Decimal(99), Decimal(1005)>>, 1, v,
                 MAX_TILE_SIZE_default) : v \in {1, 3}}
    \cup {Config(<<Decimal(1000), Decimal(9999)>>, 1, v,
                 MAX_TILE_SIZE_default) : v \in {0, 1, 3}}
    \cup {Config(<<Decimal(1), Decimal(99999)>>, 1, 3,
                 MAX_TILE_SIZE_default)}
    \cup {Config(<<Decimal(126000), Decimal(126000)>>, 1, 2,
                 MAX_TILE_SIZE_default)}
    \cup EdgeConfigs

main_init_locals ==
    [pc |-> "start", min |-> V(0), max |-> V(0), lmin |-> V(0),
     lmax |-> V(0), ret |-> -1]

InitWith(c) ==
    /\ VERBOSE_LEVEL = c.VERBOSE_LEVEL
    /\ THREADS = c.THREADS
    /\ MAX_TILE_SIZE = c.MAX_TILE_SIZE
    /\ argv = c.argv
    /\ main = main_init_locals
    /\ mat = NULL
    /\ digptr = NULL
    /\ counter = 0
    /\ read = 0
    /\ write = 0
    /\ pc = [w \in 1..c.THREADS |-> "none"]
    /\ current = [w \in 1..c.THREADS |-> NULL]
    /\ active = [w \in 1..c.THREADS |-> FALSE]
    /\ vamp_args = [w \in 1..c.THREADS |-> NULL]
    /\ locals = [w \in 1..c.THREADS |-> vampire_idle]
    /\ out = << >>
    /\ err = << >>
    /\ scans = {}
    /\ emitted = << >>
    /\ printed = << >>
    /\ touched = Touch(0, {})

Init ==
    /\ \E c \in Configs : InitWith(c)
    /\ before = -1
    /\ sig = NULL

(* -------------------------------- main --------------------------------- *)
thread_vars == <<pc, current, active, vamp_args, locals>>
handle_vars == <<mat, digptr, counter, read, write>>
history_vars == <<scans, emitted, printed>>
(* what no step of a run changes *)
build_vars == <<VERBOSE_LEVEL, THREADS, MAX_TILE_SIZE, argv, before, sig>>

(* lines 1362-1365 *)
main_usage ==
    /\ main.pc = "start"
    /\ Len(argv) + 1 # 3
    /\ out' = Append(out, <<"Usage: helsing [min] [max]">>)
    /\ main' = [main EXCEPT !.pc = "exit", !.ret = 0]
    /\ touched' = Touch(0, {})
    /\ UNCHANGED <<build_vars, handle_vars, thread_vars, history_vars, err>>

(* lines 1367-1370 *)
main_out_of_range ==
    /\ main.pc = "start"
    /\ Len(argv) + 1 = 3
    /\ atov(argv[1])[1] # 0 \/ atov(argv[2])[1] # 0
    /\ err' = Append(err, <<"Input out of range">>)
    /\ main' = [main EXCEPT !.pc = "exit", !.ret = 1]
    /\ touched' = Touch(0, {})
    /\ UNCHANGED <<build_vars, handle_vars, thread_vars, history_vars, out>>

(* lines 1371-1374 *)
main_invalid ==
    /\ main.pc = "start"
    /\ Len(argv) + 1 = 3
    /\ atov(argv[1])[1] = 0 /\ atov(argv[2])[1] = 0
    /\ VLt(atov(argv[2])[2], atov(argv[1])[2])
    /\ err' = Append(err, <<"Invalid arguments, min <= max">>)
    /\ main' = [main EXCEPT !.pc = "exit", !.ret = 1]
    /\ touched' = Touch(0, {})
    /\ UNCHANGED <<build_vars, handle_vars, thread_vars, history_vars, out>>

(* lines 1381-1388: the arguments are accepted (ELEMENT_BITS is 64) *)
main_setup ==
    /\ main.pc = "start"
    /\ Len(argv) + 1 = 3
    /\ atov(argv[1])[1] = 0 /\ atov(argv[2])[1] = 0
    /\ ~VLt(atov(argv[2])[2], atov(argv[1])[2])
    /\ \E min \in {get_min(atov(argv[1])[2], atov(argv[2])[2])} :
       \E max \in {get_max(min, atov(argv[2])[2])} :
          /\ main' = [main EXCEPT !.pc = "band", !.min = min, !.max = max,
                                  !.lmin = min, !.lmax = get_lmax(min, max)]
          /\ digptr' = cache_init(max)
    /\ mat' = matrix_init
    /\ counter' = 0
    /\ touched' = Touch(0, {})
    /\ UNCHANGED <<build_vars, read, write, thread_vars, history_vars, out,
                   err>>

(* lines 1390-1394: the head of the band loop, matrix_set and the         *)
(* creation of the workers (thread_worker lines 1302-1306)                 *)
main_band ==
    /\ main.pc = "band"
    /\ VLe(main.lmax, main.max)
    /\ err' = Append(err, <<"Checking range", main.lmin, main.lmax>>)
    /\ mat' = matrix_set(mat, main.lmin, main.lmax)
    /\ pc' = [w \in Workers |-> "lock_read"]
    /\ current' = [w \in Workers |-> NULL]
    /\ active' = [w \in Workers |-> TRUE]
    /\ vamp_args' = [w \in Workers |-> vargs_init(digptr)]
    /\ locals' = [w \in Workers |-> vampire_idle]
    /\ main' = [main EXCEPT !.pc = "join"]
    /\ emitted' = << >>
    /\ printed' = << >>
    /\ touched' = Touch(0, {"unfinished"}
                           \cup IF PROCESS_RESULTS THEN {"cleanup"} ELSE {})
    /\ UNCHANGED <<build_vars, digptr, counter, read, write, out, scans>>

(* lines 1395-1405: join, matrix_print, matrix_reset, the next band *)
main_join ==
    /\ main.pc = "join"
    /\ \A w \in Workers : pc[w] = "done"
    /\ \E r \in {matrix_print(mat, counter)} :
          /\ out' = out \o r.lines
          /\ printed' = printed \o Printed(mat.size, r.lines)
          /\ counter' = r.count
    /\ mat' = matrix_reset(mat)
    /\ pc' = [w \in Workers |-> "none"]
    /\ IF main.lmax = main.max
       THEN main' = [main EXCEPT !.pc = "print"]
       ELSE \E lmin \in {get_min(VAdd(main.lmax, V(1)), main.max)} :
               main' = [main EXCEPT !.pc = "band", !.lmin = lmin,
                                    !.lmax = get_lmax(lmin, main.max)]
    /\ touched' = Touch(0, IF PROCESS_RESULTS /\ PRINT_RESULTS
                           THEN {"cleanup", "counter"} ELSE {})
    /\ UNCHANGED <<build_vars, digptr, read, write, current, active,
                   vamp_args, locals, err, scans, emitted>>

(* lines 1390, 1406-1408: the loop ends, targs_handle_print, return 0 *)
main_print ==
    /\ \/ main.pc = "print"
       \/ main.pc = "band" /\ ~VLe(main.lmax, main.max)
    /\ err' = Append(err, <<"Found:", counter>>)
    /\ main' = [main EXCEPT !.pc = "exit", !.ret = 0]
    /\ touched' = Touch(0, {"counter"})
    /\ UNCHANGED <<build_vars, handle_vars, thread_vars, history_vars, out>>

(* ---------------------------- thread_worker ---------------------------- *)
(* A worker that goes on to the claim without taking the read mutex. *)
worker_lock_read_skipped(w) ==
    /\ pc[w] = "lock_read"
    /\ active' = [active EXCEPT ![w] = FALSE]
    /\ pc' = [pc EXCEPT ![w] = "claim"]
    /\ touched' = Touch(w, {})
    /\ UNCHANGED <<build_vars, main, mat, digptr, counter, read, write,
                   current, vamp_args, locals, out, err, history_vars>>

(* lines 1308-1312 *)
worker_lock_read(w) ==
    /\ pc[w] = "lock_read"
    /\ read = 0
    /\ read' = w
    /\ active' = [active EXCEPT ![w] = FALSE]
    /\ pc' = [pc EXCEPT ![w] = "claim"]
    /\ touched' = Touch(w, {})
    /\ UNCHANGED <<build_vars, main, mat, digptr, counter, write, current,
                   vamp_args, locals, out, err, history_vars>>

(* A claim that does not test unfinished < size. *)
worker_claim_unguarded(w) ==
    /\ pc[w] = "claim"
    /\ pc' = [pc EXCEPT ![w] = "unlock_read"]
    /\ touched' = Touch(w, {"unfinished"})
    /\ current' = [current EXCEPT ![w] = mat.unfinished]
    /\ active' = [active EXCEPT ![w] = TRUE]
    /\ mat' = [mat EXCEPT !.unfinished = @ + 1]
    /\ UNCHANGED <<build_vars, main, digptr, counter, read, write,
                   vamp_args, locals, out, err, history_vars>>

(* lines 1313-1317 *)
worker_claim(w) ==
    /\ pc[w] = "claim"
    /\ pc' = [pc EXCEPT ![w] = "unlock_read"]
    /\ touched' = Touch(w, {"unfinished"})
    /\ IF mat.unfinished < mat.size
       THEN /\ current' = [current EXCEPT ![w] = mat.unfinished]
            /\ active' = [active EXCEPT ![w] = TRUE]
            /\ mat' = [mat EXCEPT !.unfinished = @ + 1]
       ELSE UNCHANGED <<current, active, mat>>
    /\ UNCHANGED <<build_vars, main, digptr, counter, read, write,
                   vamp_args, locals, out, err, history_vars>>

(* lines 1318-1321 *)
worker_unlock_read(w) ==
    /\ pc[w] = "unlock_read"
    /\ read' = 0
    /\ pc' = [pc EXCEPT ![w] = IF active[w] THEN "vampire" ELSE "return"]
    /\ touched' = Touch(w, {})
    /\ UNCHANGED <<build_vars, main, mat, digptr, counter, write, current,
                   active, vamp_args, locals, out, err, history_vars>>

(* A kernel whose lines reach stdout last line first. *)
dump_lines_reversed(args) == Reverse(args.dumped)

(* line 1130: the lines printf has written, in the order of the calls *)
dump_lines(args) == args.dumped

(* The record kept of a finished call of vampire(): the tile, what the     *)
(* call reported and how many calls for this tile came before it.          *)
Scan(index, tile, reported) ==
    [tile |-> index, lmin |-> tile.lmin, lmax |-> tile.lmax,
     reported |-> reported,
     nth |-> Cardinality({s \in scans : s.lmin = tile.lmin})]

(* line 1322, vampire(): at most ScanChunk passes of the multiplier loop   *)
(* in a step.  The hits of a dump build are written as they are found.     *)
worker_vampire(w) ==
    /\ pc[w] = "vampire"
    /\ \E tile \in {mat.arr[current[w] + 1]} :
       \E roof \in {IF locals[w].running THEN V(locals[w].min_sqrt)
                    ELSE sqrtv_roof(tile.lmin)} :
          /\ roof # DivByZero
          /\ \E l \in {IF locals[w].running THEN locals[w]
                       ELSE vampire_enter(tile.lmax, VInt(mat.fmax), VInt(roof))} :
             \E r \in {vampire_from(tile.lmin, tile.lmax, vamp_args[w], l)} :
                /\ vamp_args' = [vamp_args EXCEPT
                                   ![w] = [r.args EXCEPT !.dumped = << >>]]
                /\ locals' = [locals EXCEPT ![w] = r.locals]
                /\ out' = out \o dump_lines(r.args)
                /\ printed' = printed \o Printed(current[w],
                                                 dump_lines(r.args))
                /\ IF r.locals.running
                   THEN UNCHANGED <<pc, scans>>
                   ELSE /\ pc' = [pc EXCEPT ![w] = "lock_write"]
                        /\ scans' = scans \cup
                                       {Scan(current[w], tile,
                                             r.args.reported)}
    /\ touched' = Touch(w, {})
    /\ UNCHANGED <<build_vars, main, handle_vars, current, active, err,
                   emitted>>

(* line 1322, vampire() of a tile with sqrtv_floor(lmin) = 0: line 299     *)
(* divides by zero.  The process is killed by the trap, or the division    *)
(* yields a value above fmax and the multiplier loop is not entered.       *)
worker_vampire_undefined(w) ==
    /\ pc[w] = "vampire"
    /\ ~locals[w].running
    /\ sqrtv_roof(mat.arr[current[w] + 1].lmin) = DivByZero
    /\ \E outcome \in {"trap", "value"} :
          IF outcome = "trap"
          THEN /\ main' = [main EXCEPT !.pc = "exit", !.ret = 136]
               /\ pc' = [v \in Workers |-> "killed"]
               /\ UNCHANGED <<vamp_args, scans>>
          ELSE /\ pc' = [pc EXCEPT ![w] = "lock_write"]
               /\ vamp_args' = [vamp_args EXCEPT
                                  ![w] = vargs_btree_cleanup(@, V(0))]
               /\ scans' = scans \cup
                              {Scan(current[w], mat.arr[current[w] + 1],
                                    << >>)}
               /\ UNCHANGED main
    /\ touched' = Touch(w, {})
    /\ UNCHANGED <<build_vars, handle_vars, current, active, locals, out,
                   err, emitted, printed>>

(* line 1325 *)
worker_lock_write(w) ==
    /\ pc[w] = "lock_write"
    /\ write = 0
    /\ write' = w
    /\ pc' = [pc EXCEPT ![w] = "commit"]
    /\ touched' = Touch(w, {})
    /\ UNCHANGED <<build_vars, main, mat, digptr, counter, read, current,
                   active, vamp_args, locals, out, err, history_vars>>

(* lines 1327-1328 with PROCESS_RESULTS, line 1344 without *)
worker_commit(w) ==
    /\ pc[w] = "commit"
    /\ IF PROCESS_RESULTS
       THEN /\ mat' = [mat EXCEPT !.arr[current[w] + 1] =
                          [@ EXCEPT !.result = vamp_args[w].lhandle,
                                    !.complete = TRUE]]
            /\ vamp_args' = [vamp_args EXCEPT ![w].lhandle = NULL]
            /\ pc' = [pc EXCEPT ![w] = "cleanup"]
            /\ touched' = Touch(w, {"result", "complete"})
            /\ UNCHANGED <<counter, emitted>>
       ELSE /\ counter' = counter + vamp_args[w].local_count
            /\ emitted' = Append(emitted,
                                 [tile |-> current[w],
                                  size |-> vamp_args[w].local_count])
            /\ pc' = [pc EXCEPT ![w] = "unlock_write"]
            /\ touched' = Touch(w, {"counter"})
            /\ UNCHANGED <<mat, vamp_args>>
    /\ UNCHANGED <<build_vars, main, digptr, read, write, current, active,
                   locals, out, err, scans, printed>>

(* A commit that emits the tile the worker has just scanned instead of    *)
(* the tile at the cleanup cursor.                                          *)
worker_cleanup_unordered(w) ==
    /\ pc[w] = "cleanup"
    /\ mat.arr[current[w] + 1] # NULL
    /\ \E result \in {mat.arr[current[w] + 1].result} :
          /\ out' = IF PRINT_RESULTS
                    THEN out \o llist_print(result.head, counter) ELSE out
          /\ printed' = IF PRINT_RESULTS
                        THEN printed
                             \o Printed(current[w],
                                        llist_print(result.head, counter))
                        ELSE printed
          /\ counter' = counter + result.size
          /\ emitted' = Append(emitted,
                               [tile |-> current[w], size |-> result.size])
    /\ mat' = [mat EXCEPT !.arr[current[w] + 1] = NULL,
                          !.cleanup = @ + 1,
                          !.freed = tile_free(mat, current[w], w)]
    /\ touched' = Touch(w, {"cleanup", "complete", "result", "counter"})
    /\ UNCHANGED <<build_vars, main, digptr, read, write, thread_vars, err,
                   scans>>

(* lines 1329-1342: one pass of the while loop *)
worker_cleanup(w) ==
    /\ pc[w] = "cleanup"
    /\ mat.cleanup < mat.size
    /\ mat.arr[mat.cleanup + 1].complete
    /\ \E result \in {mat.arr[mat.cleanup + 1].result} :
          /\ out' = IF PRINT_RESULTS
                    THEN out \o llist_print(result.head, counter) ELSE out
          /\ printed' = IF PRINT_RESULTS
                        THEN printed
                             \o Printed(mat.cleanup,
                                        llist_print(result.head, counter))
                        ELSE printed
          /\ counter' = counter + result.size
    /\ mat' = [mat EXCEPT !.arr[mat.cleanup + 1] = NULL,
                          !.cleanup = @ + 1,
                          !.freed = tile_free(mat, mat.cleanup, w)]
    /\ emitted' = Append(emitted,
                         [tile |-> mat.cleanup,
                          size |-> mat.arr[mat.cleanup + 1].result.size])
    /\ touched' = Touch(w, {"cleanup", "complete", "result", "counter"})
    /\ UNCHANGED <<build_vars, main, digptr, read, write, thread_vars, err,
                   scans>>

(* lines 1329-1331: the test of the while loop fails *)
worker_cleanup_end(w) ==
    /\ pc[w] = "cleanup"
    /\ ~(mat.cleanup < mat.size /\ mat.arr[mat.cleanup + 1].complete)
    /\ pc' = [pc EXCEPT ![w] = "unlock_write"]
    /\ touched' = Touch(w, {"cleanup"}
                           \cup IF mat.cleanup < mat.size
                                THEN {"complete"} ELSE {})
    /\ UNCHANGED <<build_vars, main, handle_vars, current, active, vamp_args,
                   locals, out, err, history_vars>>

(* A worker that goes on without releasing the write mutex. *)
worker_unlock_write_held(w) ==
    /\ pc[w] = "unlock_write"
    /\ vamp_args' = [vamp_args EXCEPT ![w] = vargs_init(digptr)]
    /\ pc' = [pc EXCEPT ![w] = "lock_read"]
    /\ touched' = Touch(w, {})
    /\ UNCHANGED <<build_vars, main, mat, digptr, counter, read, write,
                   current, active, locals, out, err, history_vars>>

(* lines 1346-1348: unlock, vargs_reset *)
worker_unlock_write(w) ==
    /\ pc[w] = "unlock_write"
    /\ write' = 0
    /\ vamp_args' = [vamp_args EXCEPT ![w] =
                       [@ EXCEPT !.local_count = 0, !.reported = << >>,
                                 !.lhandle = IF PROCESS_RESULTS
                                             THEN llhandle_init ELSE @,
                                 !.thandle = IF PROCESS_RESULTS
                                             THEN bthandle_init ELSE @]]
    /\ pc' = [pc EXCEPT ![w] = "lock_read"]
    /\ touched' = Touch(w, {})
    /\ UNCHANGED <<build_vars, main, mat, digptr, counter, read, current,
                   active, locals, out, err, history_vars>>

(* lines 1308, 1351-1356: the loop ends, vargs_free, return *)
worker_return(w) ==
    /\ pc[w] = "return"
    /\ vamp_args' = [vamp_args EXCEPT ![w] = NULL]
    /\ pc' = [pc EXCEPT ![w] = "done"]
    /\ touched' = Touch(w, {})
    /\ UNCHANGED <<build_vars, main, handle_vars, current, active, locals,
                   out, err, history_vars>>

Next ==
    \/ main_usage
    \/ main_out_of_range
    \/ main_invalid
    \/ main_setup
    \/ main_band
    \/ main_join
    \/ main_print
    \/ \E w \in Workers : worker_lock_read(w)
    \/ \E w \in Workers : worker_claim(w)
    \/ \E w \in Workers : worker_unlock_read(w)
    \/ \E w \in Workers : worker_vampire(w)
    \/ \E w \in Workers : worker_vampire_undefined(w)
    \/ \E w \in Workers : worker_lock_write(w)
    \/ \E w \in Workers : worker_commit(w)
    \/ \E w \in Workers : worker_cleanup(w)
    \/ \E w \in Workers : worker_cleanup_end(w)
    \/ \E w \in Workers : worker_unlock_write(w)
    \/ \E w \in Workers : worker_return(w)

Spec == Init /\ [][Next]_vars

(* The steps of main() and of one worker. *)
main_step ==
    \/ main_usage
    \/ main_out_of_range
    \/ main_invalid
    \/ main_setup
    \/ main_band
    \/ main_join
    \/ main_print

thread_worker(w) ==
    /\ w \in Workers
    /\ \/ worker_lock_read(w)
       \/ worker_claim(w)
       \/ worker_unlock_read(w)
       \/ worker_vampire(w)
       \/ worker_vampire_undefined(w)
       \/ worker_lock_write(w)
       \/ worker_commit(w)
       \/ worker_cleanup(w)
       \/ worker_cleanup_end(w)
       \/ worker_unlock_write(w)
       \/ worker_return(w)

(* The threads are scheduled by the operating system.  main() waits only   *)
(* in pthread_join (line 1396), a worker only in pthread_mutex_lock (lines *)
(* 1309 and 1325); everywhere else a thread is runnable.                   *)
main_runnable ==
    \/ main.pc \in {"start", "band", "print"}
    \/ main.pc = "join" /\ \A w \in Workers : pc[w] = "done"

worker_runnable(w) ==
    /\ w \in Workers
    /\ \/ pc[w] \in {"claim", "unlock_read", "vampire", "commit", "cleanup",
                      "unlock_write", "return"}
       \/ pc[w] = "lock_read" /\ read = 0
       \/ pc[w] = "lock_write" /\ write = 0

(* Weak fairness of every thread, WF_vars(main_step) and                   *)
(* WF_vars(thread_worker(w)), written out with the runnable states for the *)
(* states in which the thread's step is enabled: a thread that stays       *)
(* runnable takes a step.                                                  *)
Fairness ==
    /\ []<>(~main_runnable) \/ []<><<main_step>>_vars
    /\ \A w \in 1..MaxThreads :
          []<>(~worker_runnable(w)) \/ []<><<thread_worker(w)>>_vars

FairSpec == Init /\ [][Next]_vars /\ Fairness

(* A band of ten-digit numbers around 5267275776 = 72576 * 72576, the      *)
(* smallest vampire number with equal fangs, and the command lines that    *)
(* end early.                                                              *)
WideConfigs ==
    {Config(<<Decimal(52672) \o Decimal(75775),
              Decimal(52672) \o Decimal(75781)>>, 1, 2,
            MAX_TILE_SIZE_default)}
    \cup EdgeConfigs

InitWide ==
    /\ \E c \in WideConfigs : InitWith(c)
    /\ before = -1
    /\ sig = NULL

(* The command line is run once more, by a build with MAX_TILE_SIZE 0      *)
(* (line 130), after a run that has printed its total.                     *)
rerun ==
    /\ main.pc = "exit"
    /\ main.ret = 0
    /\ Len(argv) + 1 = 3
    /\ before = -1
    /\ before' = counter
    /\ MAX_TILE_SIZE' = V(0)
    /\ main' = main_init_locals
    /\ mat' = NULL
    /\ digptr' = NULL
    /\ counter' = 0
    /\ pc' = [w \in Workers |-> "none"]
    /\ current' = [w \in Workers |-> NULL]
    /\ active' = [w \in Workers |-> FALSE]
    /\ vamp_args' = [w \in Workers |-> NULL]
    /\ locals' = [w \in Workers |-> vampire_idle]
    /\ out' = << >>
    /\ err' = << >>
    /\ scans' = {}
    /\ emitted' = << >>
    /\ printed' = << >>
    /\ touched' = Touch(0, {})
    /\ UNCHANGED <<VERBOSE_LEVEL, THREADS, argv, read, write, sig>>

NextWide ==
    \/ Next
    \/ rerun

SpecWide == InitWide /\ [][NextWide]_vars

(* ------------------------- a check of set_dig -------------------------- *)
(* The test of lines 1128-1130 on its own: the signatures of two fangs of  *)
(* equal length are added and compared with the signature of the product.  *)
MaxSigFang == 99

(* Fang pairs with longer fangs, a * b below 2^31. *)
SigPairs ==
    {<<204, 615>>, <<246, 510>>, <<150, 930>>, <<1111, 1111>>,
     <<9999, 9999>>, <<11111, 11111>>, <<44444, 44444>>}

SigOperands ==
    {p \in (1..MaxSigFang) \X (1..MaxSigFang) :
        p[1] <= p[2] /\ Len(Decimal(p[1])) = Len(Decimal(p[2]))}
    \cup SigPairs

program_vars ==
    <<VERBOSE_LEVEL, THREADS, MAX_TILE_SIZE, argv, main, mat, digptr,
      counter, read, write, pc, current, active, vamp_args, locals, out,
      err, scans, emitted, printed, touched, before>>

InitSig ==
    /\ InitWith(Config(<<Decimal(5)>>, 1, 2, MAX_TILE_SIZE_default))
    /\ before = -1
    /\ \E p \in SigOperands :
          sig = [a |-> p[1], b |-> p[2], pc |-> "add", sum |-> DigZero,
                 product |-> DigZero]

(* dig[multiplier] + dig[multiplicand] *)
sig_add ==
    /\ sig.pc = "add"
    /\ sig' = [sig EXCEPT !.sum = DigAdd(set_dig(sig.a), set_dig(sig.b)),
                          !.pc = "product"]
    /\ UNCHANGED program_vars

(* the signature of the product *)
sig_product ==
    /\ sig.pc = "product"
    /\ sig' = [sig EXCEPT !.product = set_dig(sig.a * sig.b),
                          !.pc = "compare"]
    /\ UNCHANGED program_vars

NextSig ==
    \/ sig_add
    \/ sig_product

SpecSig == InitSig /\ [][NextSig]_vars

(* ------------------------- a band of six digits ------------------------ *)
(* Runs over a band in which a vampire number has two pairs of fangs:      *)
(* 125460 = 204 x 615 = 246 x 510, in a tile that ends above 511 x 511.    *)
DrainConfigs ==
    {Config(<<Decimal(125460), Decimal(999999)>>, 1, v,
            MAX_TILE_SIZE_default) : v \in {2, 3}}
    \cup {Config(<<Decimal(1000), Decimal(9999)>>, 1, 3,
                  MAX_TILE_SIZE_default)}
    \cup {Config(<<Decimal(1260), Decimal(1261)>>, t, v,
                  MAX_TILE_SIZE_default) : t \in 1..MaxThreads, v \in 0..3}
    \cup EdgeConfigs

InitDrain ==
    /\ \E c \in DrainConfigs : InitWith(c)
    /\ before = -1
    /\ sig = NULL

SpecDrain == InitDrain /\ [][Next]_vars

(* ----------------------- a check of the tree --------------------------- *)
(* The tree and the list of one tile on their own (STORE_RESULTS): values  *)
(* are added as vampire() adds them (line 1133) and the tree is drained as *)
(* vargs_btree_cleanup drains it (lines 1154 and 1157).                    *)
MaxKey == 5
MaxOps == 5

(* The nodes of a tree, as the set of [value, fang_pairs]. *)
RECURSIVE btree_nodes(_)
btree_nodes(tree) ==
    IF tree = NULL THEN {}
    ELSE {[value |-> tree.value, fang_pairs |-> tree.fang_pairs]}
         \cup btree_nodes(tree.left) \cup btree_nodes(tree.right)

InitTree ==
    /\ InitWith(Config(<<Decimal(5)>>, 1, 3, MAX_TILE_SIZE_default))
    /\ before = -1
    /\ sig = [pc |-> "tree", thandle |-> bthandle_init,
              lhandle |-> llhandle_init, last |-> "init", number |-> V(0),
              nodes |-> {}, listed |-> 0, ops |-> 0]

(* bthandle_add(args->thandle, product) *)
tree_add(k) ==
    /\ sig.ops < MaxOps
    /\ sig' = [sig EXCEPT !.thandle = bthandle_add(@, V(k)),
                          !.last = "add", !.ops = @ + 1]
    /\ UNCHANGED program_vars

(* vargs_btree_cleanup(args, number); nodes and listed are the nodes of    *)
(* the tree and the size of the list before the call.                      *)
tree_cleanup(n) ==
    /\ sig.ops < MaxOps
    /\ \E r \in {btree_cleanup(sig.thandle.tree, V(n), sig.lhandle,
                                sig.thandle.size)} :
          sig' = [sig EXCEPT !.thandle = [tree |-> r.tree, size |-> r.size],
                             !.lhandle = r.lhandle,
                             !.last = "cleanup", !.number = V(n),
                             !.nodes = btree_nodes(sig.thandle.tree),
                             !.listed = sig.lhandle.size,
                             !.ops = @ + 1]
    /\ UNCHANGED program_vars

NextTree ==
    \/ \E k \in 1..MaxKey : tree_add(k)
    \/ \E n \in 0..(MaxKey + 1) : tree_cleanup(n)

SpecTree == InitTree /\ [][NextTree]_vars

(* ---------------------- a check of the tiles --------------------------- *)
(* matrix_set on its own: the bands [lmin, lmin + width] for the lmin of   *)
(* TileBases, under each THREADS and three values of MAX_TILE_SIZE.        *)
MaxBand == 16

TileBases ==
    {V(1), V(95), V(1255), VSubExact(vamp_max, V(30)),
     VSubExact(vamp_max, V(MaxBand))}

InitTiles ==
    /\ \E t \in 1..MaxThreads, m \in {V(0), V(3), MAX_TILE_SIZE_default} :
          InitWith(Config(<<Decimal(5)>>, t, 2, m))
    /\ before = -1
    /\ sig = [pc |-> "tiles", lmin |-> V(0), lmax |-> V(0),
              mat |-> matrix_init]

(* matrix_set(mat, lmin, lmax), line 1392 *)
tiles_set(lmin, width) ==
    /\ sig.mat.arr = << >>
    /\ VLe(VAddC(lmin, V(width), 0), vamp_max)
    /\ sig' = [sig EXCEPT !.lmin = lmin, !.lmax = VAdd(lmin, V(width)),
                          !.mat = matrix_set(sig.mat, lmin,
                                             VAdd(lmin, V(width)))]
    /\ UNCHANGED program_vars

(* matrix_reset(mat), line 1399 *)
tiles_reset ==
    /\ sig.mat.arr # << >>
    /\ sig' = [sig EXCEPT !.lmin = V(0), !.lmax = V(0),
                          !.mat = matrix_reset(@)]
    /\ UNCHANGED program_vars

NextTiles ==
    \/ \E lmin \in TileBases, width \in 0..MaxBand : tiles_set(lmin, width)
    \/ tiles_reset

SpecTiles == InitTiles /\ [][NextTiles]_vars

(* ------------------ a check of the multiplier loop --------------------- *)
(* The multiplier loop of vampire() over one tile, a pass at a time, with  *)
(* the inner loop run step by step; the cache is that of the max of the    *)
(* run, which may have more digits than the band of the tile.  visited is  *)
(* the set of the multiplicands that the inner loop has tested.            *)
InitKernel ==
    /\ InitWith(Config(<<Decimal(1000), Decimal(9999)>>, 1, 2,
                       MAX_TILE_SIZE_default))
    /\ before = -1
    /\ \E t \in {<<1000, 2499, 9999>>, <<1255, 1265, 9999>>,
                  <<5500, 6999, 9999>>, <<1000, 9999, 9999>>,
                  <<10, 99, 9999>>, <<1000, 2499, 99999999>>,
                  <<125460, 271216, 999999>>} :
          sig = [pc |-> "kernel", stage |-> "loop",
                 min |-> V(t[1]), max |-> V(t[2]),
                 digptr |-> cache_init(V(t[3])),
                 fmax |-> VInt(matrix_fmax(V(t[1]))),
                 min_sqrt |-> VInt(sqrtv_roof(V(t[1]))),
                 max_sqrt |-> VInt(sqrtv_floor(V(t[2]))),
                 multiplier |-> VInt(matrix_fmax(V(t[1]))) + 1,
                 kmin |-> 0, kmax |-> 0, first |-> 0,
                 visited |-> {}, l |-> NULL]

(* lines 1076-1121: the next pass of the multiplier loop, up to the head   *)
(* of the inner loop                                                       *)
kernel_enter(multiplier) ==
    /\ \/ sig.stage \in {"loop", "skipped", "empty"}
       \/ sig.stage = "inner" /\ sig.l.multiplicand > sig.l.multiplicand_max
    /\ multiplier >= sig.min_sqrt
    /\ \E kmin \in {VInt(div_roof(sig.min, V(multiplier)))},
          kmax \in {multiplicand_max(sig.max, multiplier, sig.max_sqrt)} :
       \E first \in {IF multiplier % 3 = 1 THEN 0
                     ELSE vampire_con9(multiplier, kmin, kmax)} :
          sig' = [sig EXCEPT
                    !.multiplier = multiplier,
                    !.kmin = kmin, !.kmax = kmax,
                    !.first = first,
                    !.visited = {},
                    !.stage = IF multiplier % 3 = 1 THEN "skipped"
                              ELSE IF first <= kmax THEN "inner"
                              ELSE "empty",
                    !.l = IF multiplier % 3 # 1 /\ first <= kmax
                          THEN vampire_locals(
                                   vargs_init(sig.digptr),
                                   multiplier, sig.min_sqrt, first, kmax)
                          ELSE NULL]
    /\ UNCHANGED program_vars

(* lines 1123-1152: one pass of the inner loop *)
kernel_inner ==
    /\ sig.stage = "inner"
    /\ sig.l.multiplicand <= sig.l.multiplicand_max
    /\ sig' = [sig EXCEPT !.visited = @ \cup {sig.l.multiplicand},
                          !.l = vampire_inner(@)]
    /\ UNCHANGED program_vars

NextKernel ==
    \/ kernel_enter(sig.multiplier - 1)
    \/ kernel_inner

SpecKernel == InitKernel /\ [][NextKernel]_vars

(* ------------------------------ properties ------------------------------ *)
(* The decimal digits of a number, lowest first. *)
RECURSIVE DigitsOf(_)
DigitsOf(n) == IF n < 10 THEN <<n>> ELSE <<n % 10>> \o DigitsOf(n \div 10)

RECURSIVE LimbDigits(_, _)
LimbDigits(n, k) ==  \* the k lowest digits of n
    IF k = 0 THEN << >> ELSE <<n % 10>> \o LimbDigits(n \div 10, k - 1)

RECURSIVE VDigitsOf(_)
VDigitsOf(v) ==
    IF Len(v) <= 1 THEN DigitsOf(VHead(v))
    ELSE LimbDigits(v[1], 4) \o VDigitsOf(Tail(v))

DigitCount(ds, d) == Cardinality({j \in 1..Len(ds) : ds[j] = d})

SameDigits(xs, ys) == \A d \in 0..9 : DigitCount(xs, d) = DigitCount(ys, d)

(* (v, a, b) is a vampire with its fangs: v = a * b, v has twice the digits *)
(* of a and of b, the digits of a and b together are the digits of v, and   *)
(* a and b do not both end in 0.                                            *)
IsFangPair(v, a, b) ==
    /\ VMulExact(V(a), V(b)) = v
    /\ Len(DigitsOf(a)) = Len(DigitsOf(b))
    /\ Len(VDigitsOf(v)) = 2 * Len(DigitsOf(a))
    /\ SameDigits(DigitsOf(a) \o DigitsOf(b), VDigitsOf(v))
    /\ ~(a % 10 = 0 /\ b % 10 = 0)

(* What a call of vampire() has reported satisfies the predicate and lies   *)
(* in the tile.                                                             *)
Sound(lmin, lmax, reported) ==
    \A j \in 1..Len(reported) :
        /\ IsFangPair(reported[j][1], reported[j][3], reported[j][2])
        /\ VLe(lmin, reported[j][1])
        /\ VLe(reported[j][1], lmax)

(* The value of a numeral, not reduced modulo 2^64. *)
RECURSIVE NumeralValue(_)
NumeralValue(str) ==
    IF str = << >> THEN V(0)
    ELSE VAddC(VMulLimbC(NumeralValue(SubSeq(str, 1, Len(str) - 1)), 10, 0),
               V(DigitOf(str[Len(str)])), 0)

WellFormed(str) == Len(str) > 0 /\ \A j \in 1..Len(str) : isdigit(str[j])

RECURSIVE Pow10(_)
Pow10(n) == IF n = 0 THEN 1 ELSE 10 * Pow10(n - 1)

(* The largest r in lo..hi with r * r <= v, for lo * lo <= v. *)
RECURSIVE Isqrt(_, _, _)
Isqrt(v, lo, hi) ==
    IF lo = hi THEN lo
    ELSE IF VLe(VMulExact(V((lo + hi + 1) \div 2), V((lo + hi + 1) \div 2)),
                v)
         THEN Isqrt(v, (lo + hi + 1) \div 2, hi)
         ELSE Isqrt(v, lo, (lo + hi + 1) \div 2 - 1)

Max2(x, y) == IF x < y THEN y ELSE x
Min2(x, y) == IF x < y THEN x ELSE y

(* The numbers b >= a of as many digits as a with lo <= a * b <= hi. *)
Cofactors(a, lo, hi) ==
    Max2(a, VInt(VDivMod(VAddC(lo, V(a - 1), 0), V(a))[1]))
        .. Min2(Pow10(Len(DigitsOf(a))) - 1, VInt(VDivMod(hi, V(a))[1]))

(* The fang pairs <<a, b>>, a <= b, of the vampire numbers in lo..hi       *)
(* (below 10^10), found by division: a has at least half the digits of lo  *)
(* and a * a <= hi.                                                        *)
FangPairs(lo, hi) ==
    {p \in UNION {{<<a, b>> : b \in Cofactors(a, lo, hi)} :
                     a \in Pow10((Len(VDigitsOf(lo)) + 1) \div 2 - 1)
                              .. Isqrt(hi, 0, 99999)} :
        IsFangPair(VMulExact(V(p[1]), V(p[2])), p[1], p[2])}

(* The scans of the run that reported a * b with the fangs a <= b. *)
ScansOf(a, b) ==
    {s \in scans :
        \E j \in 1..Len(s.reported) :
            s.reported[j] = <<VMulExact(V(a), V(b)), b, a>>}

(* C1: when a run over [min, max] has ended with its total, every triple    *)
(* (v, a, b) with v = a * b in [min, max] that satisfies the vampire        *)
(* predicate has been reported by the scan of exactly one tile, the         *)
(* equal-fang case v = a * a of a tile that starts at v - 1 included.       *)
C1_NoMissedPair ==
    main.pc = "exit" /\ main.ret = 0 /\ Len(argv) + 1 = 3
    /\ WellFormed(argv[1]) /\ WellFormed(argv[2]) =>
        \A p \in FangPairs(NumeralValue(argv[1]), NumeralValue(argv[2])) :
            Cardinality(ScansOf(p[1], p[2])) = 1

(* C2: every (product, multiplier, multiplicand) that the scan of a tile    *)
(* [lmin, lmax] reports has product = multiplier * multiplicand in          *)
(* [lmin, lmax], fangs of half the product's length, the digits of the      *)
(* fangs equal to the digits of the product as multisets, zeros included,   *)
(* and a fang that does not end in 0.                                       *)
C2_NoSpuriousPair ==
    /\ \A s \in scans : Sound(s.lmin, s.lmax, s.reported)
    /\ \A w \in Workers :
          pc[w] = "vampire" =>
              Sound(mat.arr[current[w] + 1].lmin,
                    mat.arr[current[w] + 1].lmax, vamp_args[w].reported)

C2_Witness == \E s \in scans : Len(s.reported) > 0 /\ s.lmin # s.lmax

(* C3: in a build that prints the vampire numbers, with any number of       *)
(* workers and in any interleaving, the products printed over a band are    *)
(* strictly ascending.                                                      *)
C3_SortedOutput ==
    PRINT_RESULTS =>
        \A i, j \in 1..Len(printed) :
            i < j => VLt(printed[i].product, printed[j].product)

C3_Witness ==
    /\ PRINT_RESULTS
    /\ THREADS = 2
    /\ Len(printed) = 2
    /\ printed[1].tile # printed[2].tile

(* The number of distinct products among the pairs a scan reported. *)
Distinct(reported) ==
    Cardinality({reported[j][1] : j \in 1..Len(reported)})

C5_DeterministicCount ==
    main.pc = "exit" /\ main.ret = 0 /\ before # -1 => counter = before

(* The cursors of the band under way are in order. *)
CursorOrder ==
    main.pc = "join" =>
        /\ 0 <= mat.unfinished
        /\ mat.unfinished <= mat.size
        /\ PROCESS_RESULTS =>
              0 <= mat.cleanup /\ mat.cleanup <= mat.unfinished

(* A step of the band under way moves no cursor back. *)
CursorStep ==
    main.pc = "join" /\ main'.pc = "join" =>
        /\ mat'.unfinished >= mat.unfinished
        /\ PROCESS_RESULTS => mat'.cleanup >= mat.cleanup

(* C8: in every reachable state of a band 0 <= cleanup <= unfinished <=     *)
(* size, and no step taken while the workers of the band run decreases a    *)
(* cursor.  cleanup is a cursor in the builds that keep the results of the  *)
(* tiles; the other builds never assign or read the field.                  *)
C8_CursorInvariant == [](CursorOrder) /\ [][CursorStep]_vars

(* both cursors are inside the band, apart from each other *)
C8_Witness ==
    /\ PROCESS_RESULTS
    /\ main.pc = "join"
    /\ 0 < mat.cleanup
    /\ mat.cleanup < mat.unfinished
    /\ mat.unfinished < mat.size

(* The fields the write mutex guards. *)
WriteGuarded == {"cleanup", "result", "complete", "counter"}

(* C9: no worker holds the read mutex and the write mutex at once; a worker *)
(* reads and writes unfinished only while it holds the read mutex, and      *)
(* cleanup, the result and complete fields of the tiles and the counter     *)
(* only while it holds the write mutex.  (The driver touches these fields   *)
(* only before it creates the workers of a band and after it has joined     *)
(* them, when neither mutex is held.)                                       *)
C9_LockingDiscipline ==
    /\ \A w \in Workers :
          /\ ~(read = w /\ write = w)
          /\ pc[w] \in {"claim", "unlock_read"} <=> read = w
          /\ pc[w] \in {"commit", "cleanup", "unlock_write"} <=> write = w
    /\ touched.who \in Workers =>
          /\ "unfinished" \in touched.fields => read = touched.who
          /\ touched.fields \cap WriteGuarded # {} => write = touched.who
    /\ touched.who = 0 /\ touched.fields # {} => read = 0 /\ write = 0

(* a worker commits under the write mutex while another claims under the    *)
(* read mutex                                                                *)
C9_Witness ==
    /\ touched.who \in Workers
    /\ "unfinished" \in touched.fields
    /\ read = touched.who
    /\ write \in Workers
    /\ write # read
    /\ pc[write] = "cleanup"

(* The command line has two arguments and one of them is no decimal         *)
(* numeral, or exceeds vamp_max, or min > max.                              *)
InputError ==
    /\ Len(argv) = 2
    /\ \/ ~WellFormed(argv[1])
       \/ ~WellFormed(argv[2])
       \/ VLt(vamp_max, NumeralValue(argv[1]))
       \/ VLt(vamp_max, NumeralValue(argv[2]))
       \/ VLt(NumeralValue(argv[2]), NumeralValue(argv[1]))

(* C10: when an argument is no well-formed decimal number, or exceeds       *)
(* vamp_max, or min > max, the process exits with a status other than 0     *)
(* before a band is set up or scanned.                                      *)
C10_InputErrors ==
    InputError =>
        /\ main.pc \in {"start", "exit"}
        /\ main.pc = "exit" => main.ret # 0
        /\ scans = {}

C10_Witness == InputError /\ main.pc = "exit" /\ main.ret = 1

(* The digits 1..9 of the numbers of xs occur as often as in y. *)
SameNonZeroDigits(xs, y) ==
    \A d \in 1..9 : DigitCount(xs, d) = DigitCount(DigitsOf(y), d)

(* The field of every digit 1..9 of the signature of n holds the number of *)
(* times the digit occurs in n, and the other bits are 0.                  *)
CountsDigits(signature, n) ==
    \A i \in 1..DigFields :
        signature[i] = IF i <= 9 THEN DigitCount(DigitsOf(n), i) ELSE 0

(* C6: for fangs a and b of equal length, set_dig(a) + set_dig(b) equals   *)
(* set_dig(a * b) exactly when the digits 1..9 of a and b together are the *)
(* digits 1..9 of a * b as multisets; and no field of a signature or of    *)
(* the sum overflows into its neighbour: every field holds the count of    *)
(* its digit.                                                              *)
C6_SignatureCorrectness ==
    sig # NULL /\ sig.pc = "compare" =>
        /\ sig.sum = sig.product
               <=> SameNonZeroDigits(DigitsOf(sig.a) \o DigitsOf(sig.b),
                                     sig.a * sig.b)
        /\ CountsDigits(set_dig(sig.a), sig.a)
        /\ CountsDigits(set_dig(sig.b), sig.b)
        /\ CountsDigits(sig.product, sig.a * sig.b)
        /\ \A i \in 1..DigFields :
              sig.sum[i] = set_dig(sig.a)[i] + set_dig(sig.b)[i]

(* the signatures of 21 and 60 add up to the signature of 1260 *)
C6_Witness ==
    /\ sig # NULL
    /\ sig.pc = "compare"
    /\ sig.a = 21 /\ sig.b = 60
    /\ sig.sum = sig.product

AllDone == \A w \in Workers : pc[w] = "done"

(* A worker leaves its loop only on seeing, under the read mutex, that no   *)
(* tile is left.                                                            *)
ExitStep ==
    \A w \in Workers :
        pc[w] # "return" /\ pc'[w] = "return" =>
            pc[w] = "unlock_read" /\ read = w /\ mat.unfinished = mat.size

(* When the workers of a band have returned every tile has been claimed,    *)
(* scanned and committed.                                                   *)
Joined ==
    main.pc = "join" /\ AllDone =>
        /\ mat.unfinished = mat.size
        /\ PROCESS_RESULTS => mat.cleanup = mat.size
        /\ Len(emitted) = mat.size
        /\ \A i \in 0..(mat.size - 1) :
              /\ \E j \in 1..Len(emitted) : emitted[j].tile = i
              /\ \E s \in scans :
                    /\ s.tile = i
                    /\ VLe(main.lmin, s.lmin) /\ VLe(s.lmax, main.lmax)

(* The steps of a worker other than the scan. *)
worker_short_step(w) ==
    \/ worker_lock_read(w)
    \/ worker_claim(w)
    \/ worker_unlock_read(w)
    \/ worker_lock_write(w)
    \/ worker_commit(w)
    \/ worker_cleanup(w)
    \/ worker_cleanup_end(w)
    \/ worker_unlock_write(w)
    \/ worker_return(w)

(* A worker is runnable exactly when it can take a step.  (At the call of  *)
(* vampire() it always can: the scan is a function of the tile.)           *)
RunnableSteps ==
    \A w \in Workers :
        worker_runnable(w) /\ pc[w] # "vampire"
            <=> ENABLED worker_short_step(w)

(* A process that has not ended has a runnable thread. *)
NoDeadlock ==
    main.pc # "exit" => main_runnable \/ \E w \in Workers : worker_runnable(w)

C11_DumpAscending ==
    DUMP_RESULTS =>
        \A i, j \in 1..Len(printed) :
            i < j => VLe(printed[i].product, printed[j].product)

(* C11 as the code has it: the kernel writes a pair when it finds it, so    *)
(* the lines of a tile come in descending order of multiplier and, for one  *)
(* multiplier, in ascending order of multiplicand.                          *)
C11_DumpAsDiscovered ==
    DUMP_RESULTS =>
        \A i, j \in 1..Len(printed) :
            i < j /\ printed[i].tile = printed[j].tile =>
                \/ printed[i].line[2] > printed[j].line[2]
                \/ /\ printed[i].line[2] = printed[j].line[2]
                   /\ printed[i].line[3] < printed[j].line[3]

(* two lines of one tile, the larger product first *)
C11_Witness ==
    /\ DUMP_RESULTS
    /\ \E i, j \in 1..Len(printed) :
          /\ i < j
          /\ printed[i].tile = printed[j].tile
          /\ VLt(printed[j].product, printed[i].product)

(* The products printed by a run, in the order of the lines. *)
PrintedProducts == [j \in 1..Len(out) |-> out[j][2]]

EnumerateTo99999 ==
    /\ argv = <<Decimal(1), Decimal(99999)>>
    /\ PRINT_RESULTS
    /\ main.pc = "exit"

(* C12: for the input [1, 99999] a build that prints the vampire numbers   *)
(* prints exactly 1260, 1395, 1435, 1530, 1560, 1827, 2187, 6880 in that   *)
(* order, 8 results.                                                       *)
C12_Enumerate ==
    EnumerateTo99999 =>
        /\ PrintedProducts = <<V(1260), V(1395), V(1435), V(1530), V(1560),
                               V(1827), V(2187), V(6880)>>
        /\ counter = 8

(* C12 as the code has it: 1560 is no vampire number (its only            *)
(* factorisations in two-digit numbers are 20 x 78, 24 x 65, 26 x 60,      *)
(* 30 x 52 and 39 x 40); the run prints the other seven, in that order.    *)
C12_EnumerateSeven ==
    EnumerateTo99999 =>
        /\ PrintedProducts = <<V(1260), V(1395), V(1435), V(1530), V(1827),
                               V(2187), V(6880)>>
        /\ [j \in 1..Len(out) |-> out[j][1]] = <<1, 2, 3, 4, 5, 6, 7>>
        /\ counter = 7

C12_Witness == EnumerateTo99999 /\ main.ret = 0 /\ Len(out) > 0

CountAt126000 ==
    /\ argv = <<Decimal(126000), Decimal(126000)>>
    /\ VERBOSE_LEVEL = 2
    /\ main.pc = "exit"

(* C13: for the input [126000, 126000] a build that counts the vampire     *)
(* numbers ends with the total 1, found through the fang pair 210 x 600.   *)
C13_TrailingZero ==
    CountAt126000 =>
        /\ counter = 1
        /\ \E s \in scans : \E j \in 1..Len(s.reported) :
              s.reported[j] = <<V(126000), 600, 210>>

(* C13 as the code has it: 210 and 600 both end in 0, the rule rejects the *)
(* pair (126000 = 210 x 600 passes the test of the digits), and the total  *)
(* is 0.                                                                   *)
C13_BothEndInZero ==
    CountAt126000 =>
        /\ counter = 0
        /\ \A s \in scans : s.reported = << >>
        /\ VMulExact(V(210), V(600)) = V(126000)
        /\ DigAdd(set_dig(210), set_dig(600)) = set_dig(126000)
        /\ 210 % 10 = 0 /\ 600 % 10 = 0

(* the run has scanned the tile [126000, 126000] and ended *)
C13_Witness ==
    /\ CountAt126000
    /\ \E s \in scans : s.lmin = V(126000) /\ s.lmax = V(126000)

(* C14: a run with min = 0 meets no fault, for every max: no division by   *)
(* zero (no worker is about to divide by sqrtv_floor(lmin) = 0 at line     *)
(* 299, and the process is not killed by the trap), and the first band it  *)
(* scans starts at 10.                                                     *)
C14_MinZero ==
    Len(argv) = 2 /\ argv[1] = Decimal(0) /\ WellFormed(argv[2]) =>
        /\ main.ret # 136
        /\ \A w \in Workers :
              pc[w] = "vampire" /\ ~locals[w].running =>
                  sqrtv_roof(mat.arr[current[w] + 1].lmin) # DivByZero
        /\ \A j \in 1..Len(err) :
              (err[j][1] = "Checking range"
               /\ \A i \in 1..(j - 1) : err[i][1] # "Checking range")
                  => err[j][2] = V(10)

(* The values of a list in the order in which they were added. *)
ListedOrder(lhandle) == Reverse(llist_values(lhandle.head))

(* The values added to the list by the last drain, in the order added. *)
LastDrained ==
    SubSeq(ListedOrder(sig.lhandle), sig.listed + 1,
           Len(ListedOrder(sig.lhandle)))

TreeChecked == sig # NULL /\ sig.pc = "tree"

(* C15: a drain with the threshold t removes exactly the nodes whose key   *)
(* is < t and keeps those whose key is >= t; the removed nodes are visited *)
(* in ascending order of key, and a key is appended to the list iff its    *)
(* fang_pairs >= MIN_FANG_PAIRS.                                           *)
C15_DrainBelow ==
    TreeChecked /\ sig.last = "cleanup" =>
        /\ btree_nodes(sig.thandle.tree)
               = {n \in sig.nodes : VLe(sig.number, n.value)}
        /\ {LastDrained[j] : j \in 1..Len(LastDrained)}
               = {n.value : n \in {m \in sig.nodes :
                                      /\ VLt(m.value, sig.number)
                                      /\ m.fang_pairs >= MIN_FANG_PAIRS}}
        /\ \A i, j \in 1..Len(LastDrained) :
              i < j => VLt(LastDrained[i], LastDrained[j])

(* C15 as the code has it: the drain removes exactly the nodes whose key   *)
(* is >= t and keeps those whose key is < t; the removed nodes are visited *)
(* in descending order of key, a key is added to the list iff its          *)
(* fang_pairs >= MIN_FANG_PAIRS, and the sizes of tree and list follow.    *)
C15_DrainAtOrAbove ==
    TreeChecked /\ sig.last = "cleanup" =>
        /\ btree_nodes(sig.thandle.tree)
               = {n \in sig.nodes : VLt(n.value, sig.number)}
        /\ {LastDrained[j] : j \in 1..Len(LastDrained)}
               = {n.value : n \in {m \in sig.nodes :
                                      /\ VLe(sig.number, m.value)
                                      /\ m.fang_pairs >= MIN_FANG_PAIRS}}
        /\ \A i, j \in 1..Len(LastDrained) :
              i < j => VLt(LastDrained[j], LastDrained[i])
        /\ sig.thandle.size = Cardinality(btree_nodes(sig.thandle.tree))
        /\ sig.lhandle.size = sig.listed + Len(LastDrained)

(* a drain has removed two nodes of a tree and kept one *)
C15_Witness ==
    /\ TreeChecked
    /\ sig.last = "cleanup"
    /\ Len(LastDrained) = 2
    /\ sig.thandle.size = 1

(* The height of a tree: -1 for the empty tree, 0 for a leaf. *)
RECURSIVE TrueHeight(_)
TrueHeight(tree) ==
    IF tree = NULL THEN -1
    ELSE 1 + Max2(TrueHeight(tree.left), TrueHeight(tree.right))

RECURSIVE IsAVL(_)
IsAVL(tree) ==
    \/ tree = NULL
    \/ /\ TrueHeight(tree.left) - TrueHeight(tree.right) \in {-1, 0, 1}
       /\ IsAVL(tree.left)
       /\ IsAVL(tree.right)

(* C16: after any sequence of btree_add and btree_cleanup on a tree, the   *)
(* heights of the left and the right subtree of every node differ by at    *)
(* most 1, the empty subtree counting one less than a leaf.                *)
C16_TreeBalance == TreeChecked => IsAVL(sig.thandle.tree)

TilesChecked == sig # NULL /\ sig.pc = "tiles" /\ sig.mat.arr # << >>

(* The square of the largest fang bound of a band, at which matrix_set     *)
(* cuts the band.                                                           *)
FmaxSquare(lmin) ==
    VMulExact(pow10v(length(lmin) \div 2), pow10v(length(lmin) \div 2))

BandEnd(lmin, lmax) ==
    IF VLe(lmin, FmaxSquare(lmin)) /\ VLt(FmaxSquare(lmin), lmax)
    THEN FmaxSquare(lmin) ELSE lmax

(* C17: for every band lmin <= lmax, matrix_set creates exactly size       *)
(* tiles, each with lmin <= lmax; the first tile starts at the band's      *)
(* lmin, each following tile starts at the previous tile's lmax + 1, and   *)
(* the last tile ends at the band's (possibly clamped) lmax, so the tiles  *)
(* are pairwise disjoint and cover the band exactly.                       *)
C17_TilePartition ==
    TilesChecked =>
        /\ Len(sig.mat.arr) = sig.mat.size
        /\ sig.mat.size >= 1
        /\ \A x \in 1..Len(sig.mat.arr) :
              VLe(sig.mat.arr[x].lmin, sig.mat.arr[x].lmax)
        /\ sig.mat.arr[1].lmin = sig.lmin
        /\ \A x \in 2..Len(sig.mat.arr) :
              sig.mat.arr[x].lmin = VAddC(sig.mat.arr[x - 1].lmax, V(1), 0)
        /\ sig.mat.arr[Len(sig.mat.arr)].lmax = BandEnd(sig.lmin, sig.lmax)

(* a band cut into several tiles of which the last is the shortest *)
C17_Witness ==
    /\ TilesChecked
    /\ sig.mat.size >= 3
    /\ VLt(VSub(sig.mat.arr[sig.mat.size].lmax,
                sig.mat.arr[sig.mat.size].lmin),
           VSub(sig.mat.arr[1].lmax, sig.mat.arr[1].lmin))

FloorSqrt(x) == Isqrt(x, 0, 99999)

CeilSqrt(x) ==
    IF VMulExact(V(FloorSqrt(x)), V(FloorSqrt(x))) = x THEN FloorSqrt(x)
    ELSE FloorSqrt(x) + 1

(* C18: for every tile lmin >= 1 the lowest multiplier the kernel visits   *)
(* is the ceiling of the square root of lmin, sqrtv_roof(x) being          *)
(* ceil(sqrt(x)) and sqrtv_floor(x) being floor(sqrt(x)) for every x >= 1. *)
C18_OuterLoopBound ==
    \A w \in Workers :
        pc[w] = "vampire" /\ locals[w].running =>
            /\ locals[w].min_sqrt = CeilSqrt(mat.arr[current[w] + 1].lmin)
            /\ locals[w].max_sqrt = FloorSqrt(mat.arr[current[w] + 1].lmax)

(* The keys of a tree. *)
TreeKeys(tree) == {n.value : n \in btree_nodes(tree)}

(* C19: within one scan, once an entry has been removed from the tree by a *)
(* drain issued after a multiplier, no later pass of that scan reports the *)
(* same product: every product reported so far is either once in the tree  *)
(* or once in the result list of the tile, never in both and never twice,  *)
(* and after the scan every reported product is in the list exactly once.  *)
C19_DrainSoundness ==
    PROCESS_RESULTS =>
        \A w \in Workers :
            pc[w] \in {"vampire", "lock_write"} =>
                /\ vamp_args[w].lhandle.size + vamp_args[w].thandle.size
                       = Distinct(vamp_args[w].reported)
                /\ vamp_args[w].thandle.size
                       = Cardinality(TreeKeys(vamp_args[w].thandle.tree))
                /\ TreeKeys(vamp_args[w].thandle.tree)
                       \subseteq {vamp_args[w].reported[j][1] :
                                     j \in 1..Len(vamp_args[w].reported)}
                /\ pc[w] = "lock_write" => vamp_args[w].thandle.size = 0
                /\ STORE_RESULTS =>
                      /\ Len(llist_values(vamp_args[w].lhandle.head))
                            = vamp_args[w].lhandle.size
                      /\ \A i, j \in 1..vamp_args[w].lhandle.size :
                            i < j =>
                              VLt(llist_values(vamp_args[w].lhandle.head)[i],
                                  llist_values(vamp_args[w].lhandle.head)[j])
                      /\ \A i \in 1..vamp_args[w].lhandle.size :
                            llist_values(vamp_args[w].lhandle.head)[i]
                               \notin TreeKeys(vamp_args[w].thandle.tree)

(* in the middle of a scan a drain has moved products to the list, others  *)
(* are still in the tree, and a product has been reported with two pairs   *)
C19_Witness ==
    /\ PROCESS_RESULTS
    /\ \E w \in Workers :
          /\ pc[w] = "vampire"
          /\ locals[w].running
          /\ vamp_args[w].lhandle.size > 0
          /\ Len(vamp_args[w].reported) > Distinct(vamp_args[w].reported)

KernelChecked == sig # NULL /\ sig.pc = "kernel" /\ sig.stage # "loop"

(* (m + k) mod 9 = (m * k) mod 9 *)
Congruent(m, k) == (m + k) % 9 = (m * k) % 9

(* C20: the pruning is lossless.  A multiplier m with m mod 3 = 1 is      *)
(* skipped and has no multiplicand that satisfies the congruence; for the  *)
(* others the advancing loop stops within 9 tests or past k_max, at the    *)
(* first k >= k_min with (m + k) mod 9 = (m * k) mod 9, and the steps of 9 *)
(* visit exactly the k of [k_min, k_max] that satisfy the congruence; no   *)
(* pair (m, k) that satisfies the vampire predicate is left out.           *)
C20_PruningLossless ==
    KernelChecked =>
        /\ sig.stage # "inner" \/ sig.visited = {} =>
              \A k \in sig.kmin..sig.kmax :
                  IsFangPair(VMulExact(V(sig.multiplier), V(k)), k,
                             sig.multiplier)
                     => Congruent(sig.multiplier, k)
        /\ sig.stage = "skipped" =>
              \A k \in 1..sig.fmax : ~Congruent(sig.multiplier, k)
        /\ sig.stage = "empty" =>
              /\ sig.first - sig.kmin < 9
              /\ \A k \in sig.kmin..sig.kmax :
                    ~Congruent(sig.multiplier, k)
        /\ sig.stage = "inner" =>
              /\ sig.first - sig.kmin < 9
              /\ sig.visited =
                    {k \in sig.kmin..Min2(sig.l.multiplicand - 1, sig.kmax) :
                        Congruent(sig.multiplier, k)}

(* the advancing loop has moved k_min, the inner loop has ended after      *)
(* three steps and one of the multiplicands visited is a fang              *)
C20_Witness ==
    /\ KernelChecked
    /\ sig.stage = "inner"
    /\ sig.first > sig.kmin
    /\ sig.l.multiplicand > sig.kmax
    /\ Cardinality(sig.visited) >= 3
    /\ \E k \in sig.visited :
          IsFangPair(VMulExact(V(sig.multiplier), V(k)), k, sig.multiplier)

(* The signature test of a pass of the inner loop is about to be made. *)
AtSignatureTest ==
    /\ KernelChecked
    /\ sig.stage = "inner"
    /\ sig.l.multiplicand <= sig.l.multiplicand_max

(* C21: at the signature test of every pass of the inner loop, product is  *)
(* multiplier * multiplicand, e0 + e1 * power_a is multiplicand and        *)
(* de0 + de1 * power_a + de2 * power_a^2 is product, with e0, de0 and de1  *)
(* below power_a: one conditional subtraction of power_a for each limb in  *)
(* each step keeps this true.                                              *)
C21_IncrementalLimbs ==
    AtSignatureTest =>
        /\ sig.l.product
              = VMulExact(V(sig.l.multiplier), V(sig.l.multiplicand))
        /\ sig.l.e0 + sig.l.e1 * sig.l.power_a = sig.l.multiplicand
        /\ V(sig.l.de0 + sig.l.de1 * sig.l.power_a
               + sig.l.de2 * sig.l.power_a * sig.l.power_a) = sig.l.product
        /\ sig.l.e0 \in 0..(sig.l.power_a - 1)
        /\ sig.l.de0 \in 0..(sig.l.power_a - 1)
        /\ sig.l.de1 \in 0..(sig.l.power_a - 1)
        /\ sig.l.e1 >= 0 /\ sig.l.de2 >= 0

(* a signature test after steps that have carried into e1 and into de2 *)
C21_Witness ==
    /\ AtSignatureTest
    /\ Cardinality(sig.visited) >= 2
    /\ sig.l.e1 > sig.first \div sig.l.power_a
    /\ sig.l.de2 > (sig.l.multiplier * sig.first)
                      \div (sig.l.power_a * sig.l.power_a)

(* C22: with the cache built once for the max of the run, every index of   *)
(* the table that the kernel reads at the signature test (multiplier when  *)
(* dig[multiplier] is used, e0, e1, de0, de1, de2) is below the size of    *)
(* the cache, in the bands of fewer digits too, and the entries read add   *)
(* up to the signatures of the whole numbers: of the multiplicand and of   *)
(* the product.                                                            *)
C22_TableBounds ==
    AtSignatureTest =>
        /\ sig.min_sqrt < sig.digptr.size
              => sig.l.multiplier < sig.digptr.size
        /\ \A x \in {sig.l.e0, sig.l.e1, sig.l.de0, sig.l.de1, sig.l.de2} :
              x \in 0..(sig.digptr.size - 1)
        /\ ~sig.l.args.fault
        /\ CountsDigits(sig.l.digd, sig.l.multiplier)
        /\ CountsDigits(DigAdd(dig(sig.digptr, sig.l.e0),
                               dig(sig.digptr, sig.l.e1)),
                        sig.l.multiplicand)
        /\ CountsDigits(DigSum3(dig(sig.digptr, sig.l.de0),
                                dig(sig.digptr, sig.l.de1),
                                dig(sig.digptr, sig.l.de2)),
                        sig.l.multiplier * sig.l.multiplicand)

(* the signature of the largest multiplier tested is read from the table,  *)
(* in a tile of a band of four digits when the max of the run has eight    *)
C22_Witness ==
    /\ AtSignatureTest
    /\ sig.min_sqrt < sig.digptr.size
    /\ sig.l.multiplier = sig.fmax - 1
    /\ length(sig.max) = 4
    /\ sig.digptr = cache_init(V(99999999))

(* Every pair of reported has its multiplicand at or below its multiplier  *)
(* and no two entries of reported are the same pair of fangs.              *)
Canonical(reported) ==
    /\ \A j \in 1..Len(reported) : reported[j][3] <= reported[j][2]
    /\ \A i, j \in 1..Len(reported) :
          i < j => {reported[i][2], reported[i][3]}
                      # {reported[j][2], reported[j][3]}

(* C23: every pair that the kernel reports has multiplicand <= multiplier, *)
(* also for the multipliers m >= floor(sqrt(lmax)), for which lmax / m may *)
(* be above m; so no pair of fangs is reported twice in one scan, and a    *)
(* build that counts the pairs counts each pair once.                      *)
C23_CanonicalPairs ==
    /\ \A s \in scans : Canonical(s.reported)
    /\ \A w \in Workers :
          pc[w] \in {"vampire", "lock_write"} =>
              /\ Canonical(vamp_args[w].reported)
              /\ COUNT_RESULTS \/ DUMP_RESULTS =>
                    vamp_args[w].local_count = Len(vamp_args[w].reported)

(* a scan of a tile with lmax / floor(sqrt(lmax)) above floor(sqrt(lmax))  *)
(* has reported a pair whose multiplier is not below floor(sqrt(lmax))     *)
C23_Witness ==
    \E s \in scans :
        /\ VInt(VDiv(s.lmax, V(FloorSqrt(s.lmax)))) > FloorSqrt(s.lmax)
        /\ FloorSqrt(s.lmax) % 3 # 1
        /\ \E j \in 1..Len(s.reported) :
              s.reported[j][2] >= FloorSqrt(s.lmax)

(* The tile of a worker that has claimed one and has not yet left the      *)
(* write section in which it stores its result: the worker reads lmin and  *)
(* lmax and writes result and complete.  (After a claim that found no tile *)
(* current still names the last tile of the worker, and is not used.)      *)
HoldsTile(w) ==
    /\ active[w]
    /\ pc[w] \in {"unlock_read", "vampire", "lock_write", "commit"}

(* C24: in every interleaving a tile is freed exactly once, only after its *)
(* own scan has finished and its result has been emitted, and no worker    *)
(* reads or writes a tile after it has been freed; the matrix_reset that   *)
(* follows does not free it a second time.                                 *)
C24_TileLifetime ==
    mat # NULL =>
        /\ \A i, j \in 1..Len(mat.freed) :
              i < j => mat.freed[i].tile # mat.freed[j].tile
        /\ \A i \in 1..Len(mat.freed) :
              /\ mat.freed[i].tile \in 0..(mat.size - 1)
              /\ mat.arr # << >> => mat.arr[mat.freed[i].tile + 1] = NULL
              /\ \E s \in scans : s.lmin = mat.freed[i].lmin
              /\ \A w \in Workers :
                    HoldsTile(w) => current[w] # mat.freed[i].tile
              /\ PROCESS_RESULTS =>
                    /\ mat.freed[i].by = "worker"
                    /\ mat.freed[i].tile < mat.cleanup
                    /\ \E j \in 1..Len(emitted) :
                          emitted[j].tile = mat.freed[i].tile
              /\ ~PROCESS_RESULTS =>
                    /\ mat.freed[i].by = "main"
                    /\ \A w \in Workers : pc[w] = "none"
        /\ \A w \in Workers :
              HoldsTile(w) /\ main.pc = "join" =>
                  mat.arr[current[w] + 1] # NULL
        /\ mat.arr = << >> /\ mat.size > 0 =>
              {mat.freed[i].tile : i \in 1..Len(mat.freed)}
                 = 0..(mat.size - 1)

(* a run with two workers has ended: the workers have freed the tiles and  *)
(* matrix_reset has run over the array                                     *)
C24_Witness ==
    /\ mat # NULL
    /\ PROCESS_RESULTS
    /\ THREADS = 2
    /\ main.pc = "exit"
    /\ mat.size >= 2
    /\ mat.arr = << >>
    /\ Len(mat.freed) = mat.size

=============================================================================
